---------------------------- MODULE Spec2Model ----------------------------
(***************************************************************************)
(* A model of the recipe-recommendation backend: the Flask route layer of  *)
(* app.py and of app_improved.py, the data-access layer of models.py over  *)
(* the five MySQL tables that app.py's init_database creates, and the      *)
(* recipe generator of services.py.                                        *)
(*                                                                         *)
(* One action is one HTTP request handled from its first line to its       *)
(* response.  req is the request that was handled last (its inputs and the *)
(* two things the environment decides while it is handled: whether         *)
(* mysql.connector.connect succeeds and what the completion API answers),  *)
(* resp is the response it got.                                            *)
(*                                                                         *)
(* Text is a sequence of atoms.  An atom is a one-character string where   *)
(* the code looks inside the text (strip, lower, split, len, the e-mail    *)
(* pattern) and a whole string literal of the source where it does not.    *)
(***************************************************************************)
EXTENDS Integers, Sequences, FiniteSets, TLC

VARIABLES
    users,             \* table users: rows [id, name, email, password_hash]
    user_ingredients,  \* table user_ingredients: rows [id, user_id, ingredient, added_at]
    ingredient_seq,    \* AUTO_INCREMENT counter of user_ingredients
    recipes,           \* table recipes: rows [id, name, description, ...]
    user_favorites,    \* table user_favorites: rows [id, user_id, recipe_id, created_at]
    search_history,    \* table search_history: rows [id, user_id, ingredients, recipes_found,
                       \* search_time]
    collation,         \* the server's default collation, which the DDL leaves open
    now,               \* the clock, in instants (TICKS_PER_SECOND to the second)
    registered,        \* what the 201 responses of /api/register have returned so far
    issued,            \* the token the client got from /api/login of app_improved.py, and when
    pending,           \* the requests a worker is handling, between two statements
    connections,       \* the database connections that were opened and not closed
    api_called,        \* the search request handled last called the completion API
    req,               \* the request handled last
    resp               \* its response

vars == <<users, user_ingredients, ingredient_seq, recipes, user_favorites,
          search_history, collation, now, registered, issued, pending, connections, api_called,
          req, resp>>

tables == <<users, user_ingredients, ingredient_seq, recipes, user_favorites,
            search_history>>

-----------------------------------------------------------------------------
(* Bounds of the model. *)

\* users that may register
MaxUsers == 2
\* rows ever inserted into user_ingredients
MaxIngredientRows == 3
\* rows of recipes
MaxRecipes == 4
\* rows of user_favorites
MaxFavorites == 3
\* rows of search_history
MaxHistory == 2
\* days the clock runs
MaxTime == 8
\* connections left open
MaxConnections == 2
\* instants after midnight the clock stops at
MaxInstants == 2
\* instants of the clock in a second
TICKS_PER_SECOND == 2

-----------------------------------------------------------------------------
(* Text: str.lower, str.strip, str.split, str.join *)

UpperToLower == [A |-> "a", B |-> "b", C |-> "c"]

LowerChar(c) ==
    IF c \in DOMAIN UpperToLower THEN UpperToLower[c] ELSE c

\* str.lower()
Lower(s) == [i \in 1..Len(s) |-> LowerChar(s[i])]

Whitespace == {" "}

RECURSIVE LStrip(_)
LStrip(s) ==
    IF s # <<>> /\ Head(s) \in Whitespace THEN LStrip(Tail(s)) ELSE s

RECURSIVE RStrip(_)
RStrip(s) ==
    IF s # <<>> /\ s[Len(s)] \in Whitespace
    THEN RStrip(SubSeq(s, 1, Len(s) - 1))
    ELSE s

\* str.strip()
Strip(s) == RStrip(LStrip(s))

\* str.split(sep): the pieces between the separators, [''] for the empty text
RECURSIVE SplitFrom(_, _, _)
SplitFrom(s, sep, cur) ==
    IF s = <<>> THEN <<cur>>
    ELSE IF Head(s) = sep THEN <<cur>> \o SplitFrom(Tail(s), sep, <<>>)
    ELSE SplitFrom(Tail(s), sep, Append(cur, Head(s)))

Split(s, sep) == SplitFrom(s, sep, <<>>)

\* sep.join(list)
RECURSIVE Join(_, _)
Join(list, sep) ==
    IF list = <<>> THEN <<>>
    ELSE IF Len(list) = 1 THEN list[1]
    ELSE list[1] \o sep \o Join(Tail(list), sep)

\* list[:n]
Take(list, n) == SubSeq(list, 1, IF Len(list) < n THEN Len(list) ELSE n)

\* [f(x) for x in list] with f = str.strip
StripAll(list) == [i \in 1..Len(list) |-> Strip(list[i])]

\* the comparison of a WHERE col = %s on a text column
SqlEq(a, b) ==
    IF collation = "ci" THEN Lower(a) = Lower(b) ELSE a = b


-----------------------------------------------------------------------------
(* JSON web tokens: jwt.encode and jwt.decode of PyJWT, HS256.  A token is  *)
(* its payload together with the key that signed it.                        *)

\* app.config['SECRET_KEY']
SECRET_KEY == "server-key"

\* timedelta(days=7) of app.py, Config.JWT_EXPIRATION_DAYS of app_improved.py
JWT_EXPIRATION_DAYS == 7

NoToken == [key |-> "", has_user_id |-> FALSE, user_id |-> 0, exp |-> 0]

\* Times are counted in instants of the clock.
SECONDS_PER_DAY == 86400

\* timedelta(days=n)
timedelta(n) == n * SECONDS_PER_DAY * TICKS_PER_SECOND

\* timegm(d.utctimetuple()), by which jwt.encode turns a datetime claim into
\* a NumericDate: the fraction of the second is dropped
utctimetuple(t) == t - (t % TICKS_PER_SECOND)

\* jwt.encode({'user_id': user_id, 'exp': utcnow() + timedelta(days=...)}, key)
jwt_encode(user_id, t, key) ==
    [key |-> key, has_user_id |-> TRUE, user_id |-> user_id,
     exp |-> utctimetuple(t + timedelta(JWT_EXPIRATION_DAYS))]

\* jwt.decode with options={'verify_exp': False}
jwt_decode_no_exp(hdr, key, t) ==
    IF hdr.kind # "jwt" \/ hdr.token.key # key
    THEN [raised |-> "InvalidTokenError", payload |-> NoToken]
    ELSE [raised |-> "", payload |-> hdr.token]

\* jwt.decode(token, key, algorithms=['HS256']): the signature is verified
\* first (InvalidSignatureError, DecodeError: both InvalidTokenError), then
\* the exp claim (ExpiredSignatureError when exp <= now).
jwt_decode(hdr, key, t) ==
    IF hdr.kind # "jwt" \/ hdr.token.key # key
    THEN [raised |-> "InvalidTokenError", payload |-> NoToken]
    ELSE IF hdr.token.exp <= t
    THEN [raised |-> "ExpiredSignatureError", payload |-> NoToken]
    ELSE [raised |-> "", payload |-> hdr.token]

\* The decorator of app.py: a result with status 0 lets the handler run with
\* current_user_id; the bare except answers 401 for every exception, the
\* KeyError of data['user_id'] included.
app_token_required(hdr, t) ==
    IF hdr.kind = "missing"
    THEN [status |-> 401, error |-> "Token is missing", current_user_id |-> 0]
    ELSE LET data == jwt_decode(hdr, SECRET_KEY, t) IN
         IF data.raised # "" \/ ~data.payload.has_user_id
         THEN [status |-> 401, error |-> "Token is invalid", current_user_id |-> 0]
         ELSE [status |-> 0, error |-> "", current_user_id |-> data.payload.user_id]

-----------------------------------------------------------------------------
(* werkzeug.security: a salted one-way hash *)

Salts == {"s1", "s2"}

Digest(salt, password) == <<salt, password>>

generate_password_hash(password, salt) ==
    [salt |-> salt, digest |-> Digest(salt, password)]

\* a check that accepts every password
check_password_hash_any(pwhash, password) == pwhash.salt \in Salts

check_password_hash(pwhash, password) ==
    pwhash.digest = Digest(pwhash.salt, password)

-----------------------------------------------------------------------------
(* The e-mail pattern ^[a-zA-Z0-9._%+-]+@[a-zA-Z0-9.-]+\.[a-zA-Z]{2,}$ *)

Letters == {"a", "b", "c", "o", "A", "B", "C"}
Digits == {"1"}
LocalChars == Letters \cup Digits \cup {".", "_", "%", "+", "-"}
DomainChars == Letters \cup Digits \cup {".", "-"}

\* a pattern that forgets the @: ^[a-zA-Z0-9._%+-]+\.[a-zA-Z]{2,}$
email_pattern_match_no_at(e) ==
    \E j \in 2..(Len(e) - 2) :
        /\ \A k \in 1..(j - 1) : e[k] \in LocalChars
        /\ e[j] = "."
        /\ \A k \in (j + 1)..Len(e) : e[k] \in Letters

email_pattern_match(e) ==
    \E i \in 2..Len(e) : \E j \in (i + 2)..(Len(e) - 2) :
        /\ \A k \in 1..(i - 1) : e[k] \in LocalChars
        /\ e[i] = "@"
        /\ \A k \in (i + 1)..(j - 1) : e[k] \in DomainChars
        /\ e[j] = "."
        /\ \A k \in (j + 1)..Len(e) : e[k] \in Letters

-----------------------------------------------------------------------------
(* Table users: id INT AUTO_INCREMENT PRIMARY KEY, email UNIQUE.  No row is *)
(* ever deleted, so a row's id is its position and the next id is one more  *)
(* than the number of rows.                                                 *)

\* the SELECT with the wrong column in its WHERE
users_by_email_name(email) ==
    SelectSeq(users, LAMBDA row : SqlEq(row.name, email))

\* SELECT ... FROM users WHERE email = %s
users_by_email(email) ==
    SelectSeq(users, LAMBDA row : SqlEq(row.email, email))

users_by_id(id) ==
    SelectSeq(users, LAMBDA row : row.id = id)

\* INSERT INTO users: the UNIQUE index on email refuses a second row
users_insert(name, email, password_hash) ==
    IF \E i \in 1..Len(users) : SqlEq(users[i].email, email)
    THEN [error |-> TRUE, lastrowid |-> 0, rows |-> users]
    ELSE [error |-> FALSE, lastrowid |-> Len(users) + 1,
          rows |-> Append(users, [id |-> Len(users) + 1, name |-> name,
                                  email |-> email,
                                  password_hash |-> password_hash])]

-----------------------------------------------------------------------------
(* app.py: register, login, get_profile *)

\* data.get(k) is falsy: the key is missing or its value is empty
Falsy(data, k) == k \notin data.has \/ data[k] = <<>>

\* INSERT INTO users, commit, cursor.lastrowid, jwt.encode: the 201 of register
app_register_insert(data, salt) ==
    LET ins == users_insert(data.name, data.email,
                            generate_password_hash(data.password, salt)) IN
    IF ins.error
    THEN [resp |-> [status |-> 500, error |-> "Registration failed"],
          users |-> users]
    ELSE [resp |-> [status |-> 201, error |-> "",
                    token |-> jwt_encode(ins.lastrowid, now, SECRET_KEY),
                    user |-> [id |-> ins.lastrowid, name |-> data.name,
                              email |-> data.email]],
          users |-> ins.rows]

\* the body of register: the response and the users table it leaves
app_register_result(data, db, salt) ==
    IF Falsy(data, "name") \/ Falsy(data, "email") \/ Falsy(data, "password")
    THEN [resp |-> [status |-> 400, error |-> "Name, email and password are required"],
          users |-> users]
    ELSE IF ~email_pattern_match(data.email)
    THEN [resp |-> [status |-> 400, error |-> "Invalid email format"],
          users |-> users]
    ELSE IF Len(data.password) < 6
    THEN [resp |-> [status |-> 400, error |-> "Password must be at least 6 characters long"],
          users |-> users]
    ELSE IF ~db
    THEN [resp |-> [status |-> 500, error |-> "Database connection failed"],
          users |-> users]
    ELSE IF users_by_email(data.email) # <<>>
    THEN [resp |-> [status |-> 409, error |-> "Email already registered"],
          users |-> users]
    ELSE app_register_insert(data, salt)

app_register(data, db, salt) ==
    \E r \in {app_register_result(data, db, salt)} :
    /\ Len(r.users) <= MaxUsers
    /\ req' = [op |-> "register", app |-> "app", data |-> data, db |-> db]
    /\ resp' = r.resp
    /\ users' = r.users
    /\ registered' =
          IF r.resp.status = 201
          THEN registered \cup {[email |-> data.email, password |-> data.password,
                                 id |-> r.resp.user.id]}
          ELSE registered
    /\ UNCHANGED <<user_ingredients, ingredient_seq, recipes, user_favorites,
                   search_history, collation, now, issued, pending, connections, api_called>>

\* a token for the row inserted last instead of the row selected
app_login_token_last(user) == jwt_encode(Len(users), now, SECRET_KEY)

\* the token login issues for the row it selected
app_login_token(user) == jwt_encode(user.id, now, SECRET_KEY)

app_login_result(data, db) ==
    IF Falsy(data, "email") \/ Falsy(data, "password")
    THEN [status |-> 400, error |-> "Email and password are required"]
    ELSE IF ~db
    THEN [status |-> 500, error |-> "Database connection failed"]
    ELSE LET found == users_by_email(data.email) IN
         IF found = <<>> \/ ~check_password_hash(found[1].password_hash, data.password)
         THEN [status |-> 401, error |-> "Invalid email or password"]
         ELSE [status |-> 200, error |-> "",
               token |-> app_login_token(found[1]),
               user |-> [id |-> found[1].id, name |-> found[1].name,
                         email |-> found[1].email]]

app_login(data, db) ==
    /\ req' = [op |-> "login", app |-> "app", data |-> data, db |-> db]
    /\ resp' = app_login_result(data, db)
    /\ UNCHANGED <<tables, collation, now, registered, issued, pending, connections, api_called>>

app_get_profile_result(hdr, db) ==
    LET auth == app_token_required(hdr, now) IN
    IF auth.status # 0
    THEN [status |-> auth.status, error |-> auth.error]
    ELSE IF ~db
    THEN [status |-> 500, error |-> "Database connection failed"]
    ELSE LET found == users_by_id(auth.current_user_id) IN
         IF found = <<>>
         THEN [status |-> 404, error |-> "User not found"]
         ELSE [status |-> 200, error |-> "",
               user |-> [id |-> found[1].id, name |-> found[1].name,
                         email |-> found[1].email]]

app_get_profile(hdr, db) ==
    /\ req' = [op |-> "get_profile", app |-> "app", hdr |-> hdr, db |-> db]
    /\ resp' = app_get_profile_result(hdr, db)
    /\ UNCHANGED <<tables, collation, now, registered, issued, pending, connections, api_called>>

\* the clock advances by an instant, or to the next midnight
Tick ==
    /\ \/ /\ now % timedelta(1) < MaxInstants
          /\ now' = now + 1
       \/ /\ now \div timedelta(1) < MaxTime
          /\ now' = (now \div timedelta(1) + 1) * timedelta(1)
    /\ UNCHANGED <<tables, collation, registered, issued, pending, connections, api_called, req, resp>>


-----------------------------------------------------------------------------
(* services.py: RecipeService.  A recipe is a JSON object, a record whose   *)
(* fields are its keys.  The value of 'ingredients' and of 'instructions'   *)
(* is a list of strings (is_str_list) or some other JSON value, which       *)
(* str.join refuses with a TypeError.                                       *)

required_fields ==
    {"name", "description", "ingredients", "instructions", "cook_time", "difficulty"}

StrList(items) == [is_str_list |-> TRUE, items |-> items]

NotAStrList == [is_str_list |-> FALSE, items |-> <<>>]

\* ingredients.split(',')[0].strip()
FirstToken(ingredients) == Strip(Split(ingredients, ",")[1])

\* [ing.strip() for ing in ingredients.split(',')[:n]]
FirstTokens(ingredients, n) == StripAll(Take(Split(ingredients, ","), n))

get_fallback_recipes(ingredients) ==
    <<[name |-> <<"Simple ">> \o FirstToken(ingredients) \o <<" Dish">>,
       description |-> <<"A quick and easy recipe using your available ingredients">>,
       ingredients |-> StrList(FirstTokens(ingredients, 5)),
       instructions |-> StrList(<<<<"Prepare all ingredients">>, <<"Heat oil in a pan">>,
                                  <<"Cook main ingredients until done">>,
                                  <<"Season to taste">>, <<"Serve hot">>>>),
       cook_time |-> <<"20 min">>,
       difficulty |-> <<"Easy">>],
      [name |-> <<"Healthy ">> \o FirstToken(ingredients) \o <<" Bowl">>,
       description |-> <<"A nutritious bowl combining fresh ingredients">>,
       ingredients |-> StrList(FirstTokens(ingredients, 4)),
       instructions |-> StrList(<<<<"Prepare vegetables">>, <<"Cook protein if needed">>,
                                  <<"Arrange in a bowl">>, <<"Add dressing">>,
                                  <<"Enjoy fresh">>>>),
       cook_time |-> <<"15 min">>,
       difficulty |-> <<"Easy">>],
      [name |-> <<"Classic ">> \o FirstToken(ingredients) \o <<" Recipe">>,
       description |-> <<"A traditional preparation method">>,
       ingredients |-> StrList(FirstTokens(ingredients, 6)),
       instructions |-> StrList(<<<<"Preheat cooking surface">>, <<"Season ingredients">>,
                                  <<"Cook according to preference">>,
                                  <<"Let rest briefly">>, <<"Serve and enjoy">>>>),
       cook_time |-> <<"25 min">>,
       difficulty |-> <<"Medium">>]>>

\* The answer of openai.ChatCompletion.create: it raises, or it returns a
\* content.  A content is a body, bare or after an opening fence (```json or
\* ```), closed by ``` or not.  The body is what json.loads makes of it: no
\* JSON, a JSON value that is no list, or a list of objects.
\*
\* recipes_text[7:-3] and recipes_text[3:-3] cut the opening fence and the
\* last three characters: the closing fence when there is one, the end of the
\* body when there is none, and json.loads refuses what is left.
strip_fences(content) ==
    IF content.fence = "none" \/ content.closed
    THEN content.body
    ELSE [parses |-> FALSE, is_list |-> FALSE, items |-> <<>>]

\* a validation that looks at the first recipe only
first_has_required_fields(items) ==
    items # <<>> => required_fields \subseteq DOMAIN items[1]

\* all(field in recipe for field in required_fields), for every recipe
all_have_required_fields(items) ==
    \A i \in 1..Len(items) : required_fields \subseteq DOMAIN items[i]

\* an except branch that returns no recipes
on_api_error_empty(ingredients) == <<>>

\* except Exception: return RecipeService.get_fallback_recipes(ingredients)
on_api_error(ingredients) == get_fallback_recipes(ingredients)

generate_recipes(ingredients, api) ==
    IF api.kind = "raise"
    THEN on_api_error(ingredients)
    ELSE LET parsed == strip_fences(api.content) IN
         IF ~parsed.parses
         THEN get_fallback_recipes(ingredients)
         ELSE IF ~parsed.is_list
         THEN get_fallback_recipes(ingredients)
         ELSE IF ~all_have_required_fields(parsed.items)
         THEN get_fallback_recipes(ingredients)
         ELSE parsed.items

\* RecipeService.generate_recipes is called with the inputs drawn in req
call_generate_recipes ==
    /\ req.op = "generate_recipes"
    /\ resp.status = 0
    /\ resp' = [status |-> 1, recipes |-> generate_recipes(req.ingredients, req.api)]
    /\ UNCHANGED <<tables, collation, now, registered, issued, pending, connections, api_called, req>>

-----------------------------------------------------------------------------
(* models.py: Database.execute_query.  It opens a connection of its own,    *)
(* runs one statement and commits.  It returns None when no connection is   *)
(* obtained and when mysql.connector raises an Error.                       *)

\* fetch='one': cursor.fetchone() and then connection.commit().  fetchone
\* reads one row ahead, so a result of one row is read to its end; of a
\* result of several rows the rest stays unread, commit raises InternalError
\* (Unread result found) and the except branch returns None.
fetch_one(db, rows) ==
    IF db /\ Len(rows) = 1
    THEN [is_none |-> FALSE, row |-> rows[1]]
    ELSE [is_none |-> TRUE]

\* fetch='all': cursor.fetchall(), None without a connection
fetch_all(db, rows) ==
    IF db THEN [is_none |-> FALSE, rows |-> rows] ELSE [is_none |-> TRUE]

\* DEFAULT CURRENT_TIMESTAMP of a TIMESTAMP column: the time of the INSERT, in
\* whole seconds
CURRENT_TIMESTAMP(t) == utctimetuple(t)

\* ORDER BY <column> DESC: every order of the rows in which the column does not
\* increase; the server is free in the order of rows with equal values.
\* keys[i] is the column of rows[i]; the result is the set of the index
\* sequences the server may answer with.
RECURSIVE orders_desc(_, _)
orders_desc(keys, left) ==
    IF left = {} THEN {<<>>}
    ELSE UNION {{<<i>> \o t : t \in orders_desc(keys, left \ {i})} :
                i \in {j \in left : \A k \in left : keys[k] <= keys[j]}}

order_by_desc(rows, keys) ==
    {[n \in 1..Len(rows) |-> rows[s[n]]] : s \in orders_desc(keys, 1..Len(rows))}

\* the rows in reverse: the row inserted last first
RECURSIVE Reverse(_)
Reverse(rows) ==
    IF rows = <<>> THEN <<>> ELSE Append(Reverse(Tail(rows)), Head(rows))

\* FOREIGN KEY (user_id) REFERENCES users(id)
user_exists(user_id) == \E i \in 1..Len(users) : users[i].id = user_id

-----------------------------------------------------------------------------
(* models.py: Ingredient, over table user_ingredients (no UNIQUE index)     *)

ingredient_rows(user_id, ingredient) ==
    SelectSeq(user_ingredients,
              LAMBDA row : row.user_id = user_id /\ SqlEq(row.ingredient, ingredient))

\* a lookup that compares the name as given, not lowercased
ingredient_exists_exact(db, user_id, ingredient) ==
    ~fetch_one(db, ingredient_rows(user_id, ingredient)).is_none

\* Ingredient.ingredient_exists: result is not None
ingredient_exists(db, user_id, ingredient) ==
    ~fetch_one(db, ingredient_rows(user_id, Lower(ingredient))).is_none

\* an INSERT of the name as it was given
Ingredient_add_as_given(db, user_id, ingredient) ==
    IF db /\ user_exists(user_id)
    THEN [lastrowid |-> ingredient_seq,
          rows |-> Append(user_ingredients,
                          [id |-> ingredient_seq, user_id |-> user_id,
                           ingredient |-> ingredient,
                           added_at |-> CURRENT_TIMESTAMP(now)]),
          seq |-> ingredient_seq + 1]
    ELSE [lastrowid |-> 0, rows |-> user_ingredients, seq |-> ingredient_seq]

\* Ingredient.add_ingredient: the lastrowid of the INSERT, 0 for None
Ingredient_add_ingredient(db, user_id, ingredient) ==
    IF db /\ user_exists(user_id)
    THEN [lastrowid |-> ingredient_seq,
          rows |-> Append(user_ingredients,
                          [id |-> ingredient_seq, user_id |-> user_id,
                           ingredient |-> Lower(ingredient),
                           added_at |-> CURRENT_TIMESTAMP(now)]),
          seq |-> ingredient_seq + 1]
    ELSE [lastrowid |-> 0, rows |-> user_ingredients, seq |-> ingredient_seq]

\* the added_at column of the rows
added_ats(rows) == [i \in 1..Len(rows) |-> rows[i].added_at]

\* Ingredient.get_user_ingredients: ORDER BY added_at DESC, and then
\* [row[0] for row in results] if results else []; the set of the lists the
\* method may return
Ingredient_get_user_ingredients(db, user_id) ==
    LET mine == SelectSeq(user_ingredients, LAMBDA row : row.user_id = user_id) IN
    {LET results == fetch_all(db, sorted) IN
     IF results.is_none THEN <<>>
     ELSE [i \in 1..Len(results.rows) |-> results.rows[i].ingredient] :
        sorted \in order_by_desc(mine, added_ats(mine))}

\* a DELETE that forgets the name
Ingredient_remove_all(db, user_id, ingredient) ==
    IF db
    THEN [lastrowid |-> 0,
          rows |-> SelectSeq(user_ingredients, LAMBDA row : row.user_id # user_id)]
    ELSE [lastrowid |-> 0, rows |-> user_ingredients]

\* Ingredient.remove_ingredient: execute_query returns cursor.lastrowid, which
\* is 0 after a DELETE (no AUTO_INCREMENT value was generated), None (0 here)
\* without a connection
Ingredient_remove_ingredient(db, user_id, ingredient) ==
    IF db
    THEN [lastrowid |-> 0,
          rows |-> SelectSeq(user_ingredients,
                     LAMBDA row : ~(row.user_id = user_id
                                    /\ SqlEq(row.ingredient, Lower(ingredient))))]
    ELSE [lastrowid |-> 0, rows |-> user_ingredients]

-----------------------------------------------------------------------------
(* app_improved.py: token_required.  Status 0 lets the handler run.  The     *)
(* KeyError of data['user_id'] is caught by neither except clause and Flask *)
(* answers the unhandled exception with 500.                                *)

improved_token_required(hdr, t) ==
    IF hdr.kind = "missing"
    THEN [status |-> 401, error |-> "Authentication token is missing",
          current_user_id |-> 0]
    ELSE LET data == jwt_decode(hdr, SECRET_KEY, t) IN
         IF data.raised = "ExpiredSignatureError"
         THEN [status |-> 401, error |-> "Token has expired", current_user_id |-> 0]
         ELSE IF data.raised = "InvalidTokenError"
         THEN [status |-> 401, error |-> "Token is invalid", current_user_id |-> 0]
         ELSE IF ~data.payload.has_user_id
         THEN [status |-> 500, error |-> "Internal server error", current_user_id |-> 0]
         ELSE [status |-> 0, error |-> "", current_user_id |-> data.payload.user_id]

-----------------------------------------------------------------------------
(* app_improved.py: the ingredient routes *)

improved_get_ingredients_result(hdr, db) ==
    LET auth == improved_token_required(hdr, now) IN
    IF auth.status # 0
    THEN {[status |-> auth.status, error |-> auth.error]}
    ELSE {[status |-> 200, error |-> "", ingredients |-> ingredients] :
            ingredients \in Ingredient_get_user_ingredients(db, auth.current_user_id)}

improved_get_ingredients(hdr, db) ==
    /\ req' = [op |-> "get_ingredients", app |-> "improved", hdr |-> hdr, db |-> db]
    /\ resp' \in improved_get_ingredients_result(hdr, db)
    /\ UNCHANGED <<tables, collation, now, registered, issued, pending, connections, api_called>>

improved_add_ingredient_result(hdr, data, db) ==
    LET auth == improved_token_required(hdr, now)
        ingredient == Strip(IF "ingredient" \in data.has THEN data.ingredient ELSE <<>>)
        same == [rows |-> user_ingredients, seq |-> ingredient_seq]
    IN
    IF auth.status # 0
    THEN [resp |-> [status |-> auth.status, error |-> auth.error]] @@ same
    ELSE IF ingredient = <<>>
    THEN [resp |-> [status |-> 400, error |-> "Ingredient name is required"]] @@ same
    ELSE IF ingredient_exists(db, auth.current_user_id, ingredient)
    THEN [resp |-> [status |-> 409, error |-> "Ingredient already added"]] @@ same
    ELSE LET ins == Ingredient_add_ingredient(db, auth.current_user_id, ingredient) IN
         IF ins.lastrowid # 0
         THEN [resp |-> [status |-> 201, error |-> "", ingredient |-> Lower(ingredient)],
               rows |-> ins.rows, seq |-> ins.seq]
         ELSE [resp |-> [status |-> 500, error |-> "Failed to add ingredient"]] @@ same

improved_add_ingredient(hdr, data, db) ==
    \E r \in {improved_add_ingredient_result(hdr, data, db)} :
    /\ r.seq <= MaxIngredientRows + 1
    /\ req' = [op |-> "add_ingredient", app |-> "improved", hdr |-> hdr,
               data |-> data, db |-> db]
    /\ resp' = r.resp
    /\ user_ingredients' = r.rows
    /\ ingredient_seq' = r.seq
    /\ UNCHANGED <<users, recipes, user_favorites, search_history, collation, now,
                   registered, issued, pending, connections, api_called>>

improved_remove_ingredient_result(hdr, ingredient, db) ==
    LET auth == improved_token_required(hdr, now) IN
    IF auth.status # 0
    THEN [resp |-> [status |-> auth.status, error |-> auth.error],
          rows |-> user_ingredients]
    ELSE LET del == Ingredient_remove_ingredient(db, auth.current_user_id, ingredient) IN
         IF del.lastrowid # 0
         THEN [resp |-> [status |-> 200, error |-> ""], rows |-> del.rows]
         ELSE [resp |-> [status |-> 404, error |-> "Ingredient not found"],
               rows |-> del.rows]

improved_remove_ingredient(hdr, ingredient, db) ==
    \E r \in {improved_remove_ingredient_result(hdr, ingredient, db)} :
    /\ req' = [op |-> "remove_ingredient", app |-> "improved", hdr |-> hdr,
               ingredient |-> ingredient, db |-> db]
    /\ resp' = r.resp
    /\ user_ingredients' = r.rows
    /\ UNCHANGED <<users, ingredient_seq, recipes, user_favorites, search_history,
                   collation, now, registered, issued, pending, connections, api_called>>

-----------------------------------------------------------------------------
(* models.py: Recipe, Favorite, SearchHistory.  No row of these tables is   *)
(* ever deleted, so a row's id is its position.                             *)

\* Recipe.create_recipe: the lastrowid of the INSERT, 0 for None.  recipe is
\* the six values of the INSERT.
Recipe_create_recipe(db, rows, recipe) ==
    IF db
    THEN [lastrowid |-> Len(rows) + 1,
          rows |-> Append(rows, [id |-> Len(rows) + 1, name |-> recipe.name,
                                 description |-> recipe.description,
                                 ingredients |-> recipe.ingredients,
                                 instructions |-> recipe.instructions,
                                 cook_time |-> recipe.cook_time,
                                 difficulty |-> recipe.difficulty])]
    ELSE [lastrowid |-> 0, rows |-> rows]

\* Recipe.get_recipe_by_name: SELECT id FROM recipes WHERE name = %s, fetch='one'
Recipe_get_recipe_by_name(db, rows, name) ==
    fetch_one(db, SelectSeq(rows, LAMBDA row : SqlEq(row.name, name)))

\* Favorite.is_favorite: result is not None
Favorite_is_favorite(db, user_id, recipe_id) ==
    ~fetch_one(db, SelectSeq(user_favorites,
                     LAMBDA row : row.user_id = user_id /\ row.recipe_id = recipe_id)).is_none

\* Favorite.add_favorite: the lastrowid of the INSERT, 0 for None; both
\* columns are foreign keys
Favorite_add_favorite(db, recipe_rows, user_id, recipe_id) ==
    IF db /\ user_exists(user_id) /\ recipe_id \in 1..Len(recipe_rows)
    THEN [lastrowid |-> Len(user_favorites) + 1,
          rows |-> Append(user_favorites,
                          [id |-> Len(user_favorites) + 1, user_id |-> user_id,
                           recipe_id |-> recipe_id,
                           created_at |-> CURRENT_TIMESTAMP(now)])]
    ELSE [lastrowid |-> 0, rows |-> user_favorites]

\* the created_at column of the rows
created_ats(rows) == [i \in 1..Len(rows) |-> rows[i].created_at]

\* Favorite.get_user_favorites: the recipes joined to the user's favorites,
\* ORDER BY uf.created_at DESC; the set of the answers the server may give
Favorite_get_user_favorites(db, user_id) ==
    LET mine == SelectSeq(user_favorites, LAMBDA row : row.user_id = user_id) IN
    {fetch_all(db, [i \in 1..Len(sorted) |-> recipes[sorted[i].recipe_id]]) :
        sorted \in order_by_desc(mine, created_ats(mine))}

\* the rows stored since the start of the run (time 0)
logged_since_start(rows) == SelectSeq(rows, LAMBDA row : row.search_time >= 0)

\* SearchHistory.add_search
SearchHistory_add_search(db, user_id, ingredients, recipes_found) ==
    IF db /\ user_exists(user_id)
    THEN Append(search_history,
                [id |-> Len(search_history) + 1, user_id |-> user_id,
                 ingredients |-> ingredients, recipes_found |-> recipes_found,
                 search_time |-> CURRENT_TIMESTAMP(now)])
    ELSE search_history

\* the search_time column of the rows
search_times(rows) == [i \in 1..Len(rows) |-> rows[i].search_time]

\* a SELECT without the WHERE user_id = %s
SearchHistory_get_all_history(db, user_id, limit) ==
    {fetch_all(db, Take(sorted, limit)) :
        sorted \in order_by_desc(search_history, search_times(search_history))}

\* SearchHistory.get_user_history: ORDER BY search_time DESC LIMIT %s, the set
\* of the answers the server may give
SearchHistory_get_user_history(db, user_id, limit) ==
    LET mine == SelectSeq(search_history, LAMBDA row : row.user_id = user_id) IN
    {fetch_all(db, Take(sorted, limit)) :
        sorted \in order_by_desc(mine, search_times(mine))}

-----------------------------------------------------------------------------
(* app_improved.py: search_recipes *)

\* recipe_data.get(key, default)
Get(recipe_data, key, default) ==
    IF key \in DOMAIN recipe_data THEN recipe_data[key] ELSE default

\* The loop that stores the recipes: ', '.join and '\n'.join raise TypeError
\* on a value that is no list of strings, after the recipes before it were
\* stored.
RECURSIVE store_recipes(_, _, _)
store_recipes(db, list, rows) ==
    IF list = <<>> THEN [raised |-> FALSE, rows |-> rows]
    ELSE IF ~Head(list).ingredients.is_str_list \/ ~Head(list).instructions.is_str_list
    THEN [raised |-> TRUE, rows |-> rows]
    ELSE store_recipes(db, Tail(list),
            Recipe_create_recipe(db, rows,
                [name |-> Head(list).name, description |-> Head(list).description,
                 ingredients |-> Join(Head(list).ingredients.items, <<", ">>),
                 instructions |-> Join(Head(list).instructions.items, <<"\n">>),
                 cook_time |-> Head(list).cook_time,
                 difficulty |-> Head(list).difficulty]).rows)

\* the text history_model.add_search is given
logged_ingredients(data, ingredients) == ingredients

\* data.get('ingredients', '') as it is
search_ingredients_as_given(data) == Get(data, "ingredients", <<>>)

\* data.get('ingredients', '').strip()
search_ingredients(data) == Strip(Get(data, "ingredients", <<>>))

improved_search_recipes_result(hdr, data, api, db) ==
    LET auth == improved_token_required(hdr, now)
        ingredients == search_ingredients(data)
        same == [recipes |-> recipes, history |-> search_history, called |-> FALSE]
    IN
    IF auth.status # 0
    THEN [resp |-> [status |-> auth.status, error |-> auth.error]] @@ same
    ELSE IF ingredients = <<>>
    THEN [resp |-> [status |-> 400, error |-> "Ingredients are required"]] @@ same
    ELSE LET found == generate_recipes(ingredients, api)
             history == SearchHistory_add_search(db, auth.current_user_id,
                            logged_ingredients(data, ingredients), Len(found))
             stored == store_recipes(db, found, recipes)
         IN
         IF stored.raised
         THEN [resp |-> [status |-> 500, error |-> "Recipe search failed"],
               recipes |-> stored.rows, history |-> history, called |-> TRUE]
         ELSE [resp |-> [status |-> 200, error |-> "", recipes |-> found,
                         total |-> Len(found), ingredients_used |-> ingredients],
               recipes |-> stored.rows, history |-> history, called |-> TRUE]

improved_search_recipes(hdr, data, api, db) ==
    \E r \in {improved_search_recipes_result(hdr, data, api, db)} :
    /\ Len(r.recipes) <= MaxRecipes
    /\ Len(logged_since_start(r.history)) <= MaxHistory
    /\ req' = [op |-> "search_recipes", app |-> "improved", hdr |-> hdr,
               data |-> data, api |-> api, db |-> db]
    /\ resp' = r.resp
    /\ recipes' = r.recipes
    /\ search_history' = r.history
    /\ api_called' = r.called
    /\ UNCHANGED <<users, user_ingredients, ingredient_seq, user_favorites,
                   collation, now, registered, issued, pending, connections>>

-----------------------------------------------------------------------------
(* app_improved.py: the favorites routes *)

improved_get_favorites_result(hdr, db) ==
    LET auth == improved_token_required(hdr, now) IN
    IF auth.status # 0
    THEN {[status |-> auth.status, error |-> auth.error]}
    ELSE {[status |-> 200, error |-> "",
           favorites |-> IF favorites_data.is_none THEN <<>>
                         ELSE [i \in 1..Len(favorites_data.rows) |->
                                 [id |-> favorites_data.rows[i].id,
                                  name |-> favorites_data.rows[i].name,
                                  description |-> favorites_data.rows[i].description,
                                  cook_time |-> favorites_data.rows[i].cook_time,
                                  difficulty |-> favorites_data.rows[i].difficulty]]] :
            favorites_data \in Favorite_get_user_favorites(db, auth.current_user_id)}

improved_get_favorites(hdr, db) ==
    /\ req' = [op |-> "get_favorites", app |-> "improved", hdr |-> hdr, db |-> db]
    /\ resp' \in improved_get_favorites_result(hdr, db)
    /\ UNCHANGED <<tables, collation, now, registered, issued, pending, connections, api_called>>

\* "Check if recipe exists, create if not": the id and the recipes table.
\* raised is the TypeError of str.join.
find_or_create_recipe(db, recipe_data) ==
    LET existing_recipe == Recipe_get_recipe_by_name(db, recipes, recipe_data.name) IN
    IF ~existing_recipe.is_none
    THEN [raised |-> FALSE, recipe_id |-> existing_recipe.row.id, rows |-> recipes]
    ELSE IF \/ ~Get(recipe_data, "ingredients", StrList(<<>>)).is_str_list
            \/ ~Get(recipe_data, "instructions", StrList(<<>>)).is_str_list
    THEN [raised |-> TRUE, recipe_id |-> 0, rows |-> recipes]
    ELSE LET ins == Recipe_create_recipe(db, recipes,
                  [name |-> recipe_data.name,
                   description |-> Get(recipe_data, "description", <<>>),
                   ingredients |->
                       Join(Get(recipe_data, "ingredients", StrList(<<>>)).items, <<", ">>),
                   instructions |->
                       Join(Get(recipe_data, "instructions", StrList(<<>>)).items, <<"\n">>),
                   cook_time |-> Get(recipe_data, "cook_time", <<>>),
                   difficulty |-> Get(recipe_data, "difficulty", <<"Medium">>)]) IN
         [raised |-> FALSE, recipe_id |-> ins.lastrowid, rows |-> ins.rows]

improved_add_favorite_recipe_result(hdr, data, db) ==
    LET auth == improved_token_required(hdr, now)
        recipe_data == Get(data, "recipe", [x \in {} |-> <<>>])
        same == [recipes |-> recipes, favorites |-> user_favorites]
    IN
    IF auth.status # 0
    THEN [resp |-> [status |-> auth.status, error |-> auth.error]] @@ same
    ELSE IF DOMAIN recipe_data = {} \/ Get(recipe_data, "name", <<>>) = <<>>
    THEN [resp |-> [status |-> 400, error |-> "Recipe data is required"]] @@ same
    ELSE LET found == find_or_create_recipe(db, recipe_data) IN
         IF found.raised
         THEN [resp |-> [status |-> 500, error |-> "Failed to add favorite"]] @@ same
         ELSE IF found.recipe_id = 0
         THEN [resp |-> [status |-> 500, error |-> "Failed to create recipe"]] @@ same
         ELSE IF Favorite_is_favorite(db, auth.current_user_id, found.recipe_id)
         THEN [resp |-> [status |-> 409, error |-> "Recipe already in favorites"],
               recipes |-> found.rows, favorites |-> user_favorites]
         ELSE LET ins == Favorite_add_favorite(db, found.rows, auth.current_user_id,
                                               found.recipe_id) IN
              IF ins.lastrowid # 0
              THEN [resp |-> [status |-> 201, error |-> ""],
                    recipes |-> found.rows, favorites |-> ins.rows]
              ELSE [resp |-> [status |-> 500, error |-> "Failed to add to favorites"],
                    recipes |-> found.rows, favorites |-> user_favorites]

improved_add_favorite_recipe(hdr, data, db) ==
    \E r \in {improved_add_favorite_recipe_result(hdr, data, db)} :
    /\ Len(r.recipes) <= MaxRecipes
    /\ Len(r.favorites) <= MaxFavorites
    /\ req' = [op |-> "add_favorite_recipe", app |-> "improved", hdr |-> hdr,
               data |-> data, db |-> db]
    /\ resp' = r.resp
    /\ recipes' = r.recipes
    /\ user_favorites' = r.favorites
    /\ UNCHANGED <<users, user_ingredients, ingredient_seq, search_history,
                   collation, now, registered, issued, pending, connections, api_called>>

-----------------------------------------------------------------------------
(* app_improved.py: register, login, history, profile, stats *)

\* register: validate_email is defined in no module, so the call raises
\* NameError, which the handler's except clause answers with 500, whenever
\* the three keys are present.
improved_register_result(data) ==
    IF ~({"name", "email", "password"} \subseteq data.has)
    THEN [status |-> 400, error |-> "Name, email and password are required"]
    ELSE [status |-> 500, error |-> "Registration failed"]

improved_register(data, db) ==
    /\ req' = [op |-> "register", app |-> "improved", data |-> data, db |-> db]
    /\ resp' = improved_register_result(data)
    /\ UNCHANGED <<tables, collation, now, registered, issued, pending, connections, api_called>>

improved_login_result(data, db) ==
    IF ~({"email", "password"} \subseteq data.has)
    THEN [status |-> 400, error |-> "Email and password are required"]
    ELSE LET user == fetch_one(db, users_by_email(data.email)) IN
         IF user.is_none
         THEN [status |-> 401, error |-> "Invalid email or password"]
         ELSE IF ~check_password_hash(user.row.password_hash, data.password)
         THEN [status |-> 401, error |-> "Invalid email or password"]
         ELSE [status |-> 200, error |-> "",
               token |-> jwt_encode(user.row.id, now, SECRET_KEY),
               user |-> [id |-> user.row.id, name |-> user.row.name,
                         email |-> user.row.email]]

improved_login(data, db) ==
    \E r \in {improved_login_result(data, db)} :
        /\ req' = [op |-> "login", app |-> "improved", data |-> data, db |-> db]
        /\ resp' = r
        /\ issued' = IF r.status = 200
                      THEN {[token |-> r.token, at |-> now]}
                      ELSE issued
        /\ UNCHANGED <<tables, collation, now, registered, pending, connections, api_called>>

\* SearchHistory.get_user_history(self, user_id, limit=20)
HISTORY_LIMIT == 20

\* the three columns of the SELECT, as the routes answer them
history_rows(rows) ==
    [i \in 1..Len(rows) |->
        [ingredients |-> rows[i].ingredients,
         recipes_found |-> rows[i].recipes_found,
         search_time |-> rows[i].search_time]]

\* the answers get_history may give: one for each order the server may
\* return the rows in
improved_get_history_result(hdr, db) ==
    LET auth == improved_token_required(hdr, now) IN
    IF auth.status # 0
    THEN {[status |-> auth.status, error |-> auth.error]}
    ELSE {[status |-> 200, error |-> "",
           history |-> IF history_data.is_none THEN <<>>
                       ELSE history_rows(history_data.rows)] :
            history_data \in SearchHistory_get_user_history(db, auth.current_user_id,
                                                            HISTORY_LIMIT)}

improved_get_history(hdr, db) ==
    /\ req' = [op |-> "get_history", app |-> "improved", hdr |-> hdr, db |-> db]
    /\ resp' \in improved_get_history_result(hdr, db)
    /\ UNCHANGED <<tables, collation, now, registered, issued, pending, connections, api_called>>

improved_get_profile_result(hdr, db) ==
    LET auth == improved_token_required(hdr, now) IN
    IF auth.status # 0
    THEN [status |-> auth.status, error |-> auth.error]
    ELSE LET user_data == fetch_one(db, users_by_id(auth.current_user_id)) IN
         IF user_data.is_none
         THEN [status |-> 404, error |-> "User not found"]
         ELSE [status |-> 200, error |-> "",
               user |-> [id |-> user_data.row.id, name |-> user_data.row.name,
                         email |-> user_data.row.email]]

improved_get_profile(hdr, db) ==
    /\ req' = [op |-> "get_profile", app |-> "improved", hdr |-> hdr, db |-> db]
    /\ resp' = improved_get_profile_result(hdr, db)
    /\ UNCHANGED <<tables, collation, now, registered, issued, pending, connections, api_called>>

\* get_user_stats calls get_user_history(current_user_id, limit=5)
STATS_HISTORY_LIMIT == 5

improved_get_user_stats_result(hdr, db) ==
    LET auth == improved_token_required(hdr, now) IN
    IF auth.status # 0
    THEN {[status |-> auth.status, error |-> auth.error]}
    ELSE {[status |-> 200, error |-> "",
           total_ingredients |-> Len(ingredients),
           total_favorites |-> IF favorites.is_none THEN 0 ELSE Len(favorites.rows),
           total_searches |-> IF history.is_none THEN 0 ELSE Len(history.rows),
           recent_ingredients |-> Take(ingredients, 5)] :
            ingredients \in Ingredient_get_user_ingredients(db, auth.current_user_id),
            favorites \in Favorite_get_user_favorites(db, auth.current_user_id),
            history \in SearchHistory_get_user_history(db, auth.current_user_id,
                                                       STATS_HISTORY_LIMIT)}

improved_get_user_stats(hdr, db) ==
    /\ req' = [op |-> "get_user_stats", app |-> "improved", hdr |-> hdr, db |-> db]
    /\ resp' \in improved_get_user_stats_result(hdr, db)
    /\ UNCHANGED <<tables, collation, now, registered, issued, pending, connections, api_called>>

-----------------------------------------------------------------------------
(* app.py: search_recipes.  The call of the API, the INSERT into             *)
(* search_history and the commit are inside one try whose except clause      *)
(* answers any exception with 500; get_db_connection returns None without a *)
(* connection and connection.cursor() then raises.                          *)

\* the number of sample recipes the handler returns and logs
SAMPLE_RECIPES == 3

\* except Exception as e: return jsonify({'error': ...}), 500
app_on_api_error == [status |-> 500, error |-> "Recipe search failed"]

\* search_recipes: the connection is opened after the API call, inside the
\* try, and closed by the last statements before the return.  Without a
\* connection, connection.cursor() raises AttributeError.  When the INSERT
\* raises (the foreign key, for a token whose user has no row), the except
\* clause answers 500 and connection.close() is not reached.
app_search_recipes_result(hdr, data, api, db) ==
    LET auth == app_token_required(hdr, now)
        ingredients == Get(data, "ingredients", <<>>)
    IN
    IF auth.status # 0
    THEN [resp |-> [status |-> auth.status, error |-> auth.error],
          history |-> search_history, left_open |-> 0,
          called |-> FALSE]
    ELSE IF ingredients = <<>>
    THEN [resp |-> [status |-> 400, error |-> "Ingredients are required"],
          history |-> search_history, left_open |-> 0,
          called |-> FALSE]
    ELSE IF api.kind = "raise"
    THEN [resp |-> app_on_api_error, history |-> search_history, left_open |-> 0,
          called |-> TRUE]
    ELSE IF ~db
    THEN [resp |-> [status |-> 500, error |-> "Recipe search failed"],
          history |-> search_history, left_open |-> 0,
          called |-> TRUE]
    ELSE IF ~user_exists(auth.current_user_id)
    THEN [resp |-> [status |-> 500, error |-> "Recipe search failed"],
          history |-> search_history, left_open |-> 1,
          called |-> TRUE]
    ELSE [resp |-> [status |-> 200, error |-> "", total |-> SAMPLE_RECIPES,
                    ingredients_used |-> ingredients],
          history |-> Append(search_history,
                        [id |-> Len(search_history) + 1,
                         user_id |-> auth.current_user_id,
                         ingredients |-> ingredients,
                         recipes_found |-> SAMPLE_RECIPES,
                         search_time |-> CURRENT_TIMESTAMP(now)]),
          left_open |-> 0,
          called |-> TRUE]

app_search_recipes(hdr, data, api, db) ==
    \E r \in {app_search_recipes_result(hdr, data, api, db)} :
    /\ Len(logged_since_start(r.history)) <= MaxHistory
    /\ req' = [op |-> "search_recipes", app |-> "app", hdr |-> hdr, data |-> data,
               api |-> api, db |-> db]
    /\ resp' = r.resp
    /\ search_history' = r.history
    /\ connections' = connections + r.left_open
    /\ connections' <= MaxConnections
    /\ api_called' = r.called
    /\ UNCHANGED <<users, user_ingredients, ingredient_seq, recipes, user_favorites,
                   collation, now, registered, issued, pending>>

-----------------------------------------------------------------------------
(* The requests the clients send *)

AllKeys == {"name", "email", "password"}

Names == {<<"Ann">>}

\* a@b.co, A@b.co, c@b.co match the pattern; a@b.c and ab.co do not
Emails ==
    {<<"a", "@", "b", ".", "c", "o">>, <<"A", "@", "b", ".", "c", "o">>,
     <<"c", "@", "b", ".", "c", "o">>, <<"a", "@", "b", ".", "c">>,
     <<"a", "b", ".", "c", "o">>}

\* six characters and five characters
Passwords == {<<"s", "e", "c", "r", "e", "t">>, <<"s", "h", "o", "r", "t">>}

\* the passwords tried at login: the two above and a third of seven characters
LoginPasswords == Passwords \cup {<<"s", "e", "c", "r", "e", "t", "2">>}

RegisterData ==
    {[has |-> AllKeys, name |-> n, email |-> e, password |-> p] :
        n \in Names, e \in Emails, p \in Passwords}
    \cup {[has |-> {"name", "email"}, name |-> <<"Ann">>,
           email |-> <<"a", "@", "b", ".", "c", "o">>, password |-> <<>>],
          [has |-> AllKeys, name |-> <<>>,
           email |-> <<"a", "@", "b", ".", "c", "o">>,
           password |-> <<"s", "e", "c", "r", "e", "t">>]}

LoginData ==
    {[has |-> {"email", "password"}, email |-> e, password |-> p] :
        e \in Emails, p \in LoginPasswords}
    \cup {[has |-> {"email"}, email |-> <<"a", "@", "b", ".", "c", "o">>,
           password |-> <<>>]}

\* The Authorization headers: none, text that is no token, and tokens signed
\* with the server's key or another, with or without the user_id claim, that
\* expire now or in JWT_EXPIRATION_DAYS days.
Headers(t) ==
    {[kind |-> "missing", token |-> NoToken], [kind |-> "garbage", token |-> NoToken]}
    \cup {[kind |-> "jwt",
           token |-> [key |-> k, has_user_id |-> h, user_id |-> IF h THEN u ELSE 0,
                      exp |-> e]] :
            k \in {SECRET_KEY, "other-key"}, h \in BOOLEAN, u \in 1..MaxUsers,
            e \in {t, t + timedelta(JWT_EXPIRATION_DAYS)}}

-----------------------------------------------------------------------------
(* app.py started on the empty tables that init_database creates *)

InitTables ==
    /\ users = <<>>
    /\ user_ingredients = <<>>
    /\ ingredient_seq = 1
    /\ recipes = <<>>
    /\ user_favorites = <<>>
    /\ search_history = <<>>

Init ==
    /\ InitTables
    /\ collation \in {"ci", "bin"}
    /\ now = 0
    /\ registered = {}
    /\ issued = {}
    /\ pending = {}
    /\ connections = 0
    /\ api_called = FALSE
    /\ req = [op |-> "none"]
    /\ resp = [status |-> 0]

NextApp ==
    \/ \E data \in RegisterData, db \in BOOLEAN, salt \in Salts :
          app_register(data, db, salt)
    \/ \E data \in LoginData, db \in BOOLEAN : app_login(data, db)
    \/ \E hdr \in Headers(now), db \in BOOLEAN : app_get_profile(hdr, db)

SpecApp == Init /\ [][NextApp]_vars


-----------------------------------------------------------------------------
(* Claims about app.py *)

\* a request that passes the three validations of register
WellFormedRegistration(data) ==
    /\ ~Falsy(data, "name") /\ ~Falsy(data, "email") /\ ~Falsy(data, "password")
    /\ email_pattern_match(data.email)
    /\ Len(data.password) >= 6

\* C2: in every reachable state, a POST /api/register of app.py that carries
\* a name, a well-formed e-mail and a password of at least 6 characters, and
\* whose e-mail equals the e-mail of a stored user, is answered 409 and the
\* users table is left as it was.  The request is one that is handled with a
\* database connection; without one register answers 500.
C2_DuplicateEmailConflict ==
    [][(/\ req'.op = "register" /\ req'.app = "app" /\ req'.db
        /\ WellFormedRegistration(req'.data)
        /\ \E i \in 1..Len(users) : users[i].email = req'.data.email)
       => (resp'.status = 409 /\ users' = users)]_vars

C2_Witness ==
    /\ req.op = "register" /\ req.app = "app" /\ req.db
    /\ WellFormedRegistration(req.data)
    /\ \E i \in 1..Len(users) : users[i].email = req.data.email
    /\ resp.status = 409
    /\ Len(users) = 2

\* C3: for every user a successful registration of app.py created, a token
\* that a successful login with that user's e-mail and password issues
\* carries the id the registration returned, and token_required decodes the
\* token to that id.
C3_LoginTokenCarriesRegisteredId ==
    (req.op = "login" /\ req.app = "app" /\ resp.status = 200) =>
        \A r \in registered :
            (r.email = req.data.email /\ r.password = req.data.password) =>
                /\ resp.token.user_id = r.id
                /\ LET auth == app_token_required(
                                   [kind |-> "jwt", token |-> resp.token], now) IN
                   auth.status = 0 /\ auth.current_user_id = r.id

C3_Witness ==
    /\ req.op = "login" /\ req.app = "app" /\ resp.status = 200
    /\ Len(users) = 2
    /\ \E r \in registered :
          /\ r.email = req.data.email /\ r.password = req.data.password
          /\ r.id = 1 /\ resp.token.user_id = 1


-----------------------------------------------------------------------------
(* RecipeService.generate_recipes on every ingredient text of at most       *)
(* MaxTextLen characters and every answer of the completion API             *)

MaxTextLen == 3

TextAlphabet == {"a", "B", ",", " "}

Texts(n) == UNION {[1..k -> TextAlphabet] : k \in 0..n}

SampleRecipe ==
    [name |-> <<"Omelette">>,
     description |-> <<"Eggs, beaten and fried">>,
     ingredients |-> StrList(<<<<"egg">>, <<"butter">>>>),
     instructions |-> StrList(<<<<"Beat">>, <<"Fry">>>>),
     cook_time |-> <<"10 min">>,
     difficulty |-> <<"Easy">>]

\* the same recipe without its difficulty
IncompleteRecipe ==
    [name |-> <<"Omelette">>,
     description |-> <<"Eggs, beaten and fried">>,
     ingredients |-> StrList(<<<<"egg">>, <<"butter">>>>),
     instructions |-> StrList(<<<<"Beat">>, <<"Fry">>>>),
     cook_time |-> <<"10 min">>]

\* a recipe whose ingredients are objects, not strings
IllTypedRecipe ==
    [name |-> <<"Porridge">>,
     description |-> <<"Oats and milk">>,
     ingredients |-> NotAStrList,
     instructions |-> StrList(<<<<"Boil">>>>),
     cook_time |-> <<"5 min">>,
     difficulty |-> <<"Easy">>]

Bodies ==
    {[parses |-> FALSE, is_list |-> FALSE, items |-> <<>>],
     [parses |-> TRUE, is_list |-> FALSE, items |-> <<>>],
     [parses |-> TRUE, is_list |-> TRUE, items |-> <<>>],
     [parses |-> TRUE, is_list |-> TRUE, items |-> <<SampleRecipe>>],
     [parses |-> TRUE, is_list |-> TRUE, items |-> <<SampleRecipe, IncompleteRecipe>>],
     [parses |-> TRUE, is_list |-> TRUE, items |-> <<SampleRecipe, IllTypedRecipe>>]}

ApiOutcomes ==
    {[kind |-> "raise",
      content |-> [fence |-> "none", closed |-> FALSE,
                   body |-> [parses |-> FALSE, is_list |-> FALSE, items |-> <<>>]]]}
    \cup {[kind |-> "content", content |-> [fence |-> f, closed |-> c, body |-> b]] :
            f \in {"none", "json", "bare"}, c \in BOOLEAN, b \in Bodies}

InitRecipes ==
    /\ InitTables
    /\ collation = "ci"
    /\ now = 0
    /\ registered = {}
    /\ issued = {}
    /\ pending = {}
    /\ connections = 0
    /\ api_called = FALSE
    /\ req \in {[op |-> "generate_recipes", ingredients |-> t, api |-> a] :
                   t \in Texts(MaxTextLen), a \in ApiOutcomes}
    /\ resp = [status |-> 0]

NextRecipes == call_generate_recipes

SpecRecipes == InitRecipes /\ [][NextRecipes]_vars

\* C1: RecipeService.generate_recipes, called with a non-empty ingredient
\* text while the call of the completion API raises, returns exactly 3
\* recipes, each with the six required fields.
C1_FallbackWhenApiRaises ==
    (/\ req.op = "generate_recipes" /\ resp.status = 1
     /\ req.ingredients # <<>> /\ req.api.kind = "raise")
    => /\ Len(resp.recipes) = 3
       /\ \A i \in 1..Len(resp.recipes) :
             required_fields \subseteq DOMAIN resp.recipes[i]

C1_Witness ==
    /\ req.op = "generate_recipes" /\ resp.status = 1
    /\ req.ingredients = <<"a", ",", "B">> /\ req.api.kind = "raise"
    /\ Len(resp.recipes) = 3
    /\ resp.recipes[3].ingredients.items = <<<<"a">>, <<"B">>>>


-----------------------------------------------------------------------------
(* app_improved.py, the ingredient routes, on a database in which two users *)
(* have registered                                                          *)

\* the users table after two registrations
RegisteredUsers ==
    <<[id |-> 1, name |-> <<"Ann">>, email |-> <<"a", "@", "b", ".", "c", "o">>,
       password_hash |-> generate_password_hash(<<"s", "e", "c", "r", "e", "t">>, "s1")],
      [id |-> 2, name |-> <<"Ann">>, email |-> <<"c", "@", "b", ".", "c", "o">>,
       password_hash |-> generate_password_hash(<<"s", "e", "c", "r", "e", "t">>, "s2")]>>

\* no header, and the unexpired tokens the server signs
SessionHeaders(t) ==
    {[kind |-> "missing", token |-> NoToken]}
    \cup {[kind |-> "jwt", token |-> jwt_encode(u, t, SECRET_KEY)] : u \in 1..MaxUsers}

\* the JSON bodies of POST /api/ingredients: a, A, " a ", b, " " and no key
IngredientData ==
    {[has |-> {"ingredient"}, ingredient |-> i] :
        i \in {<<"a">>, <<"A">>, <<" ", "a", " ">>, <<"b">>, <<" ">>}}
    \cup {[has |-> {}, ingredient |-> <<>>]}

\* the names in the path of DELETE /api/ingredients/<ingredient>
IngredientPaths == {<<"a">>, <<"A">>, <<"b">>}

InitImproved ==
    /\ users = RegisteredUsers
    /\ user_ingredients = <<>>
    /\ ingredient_seq = 1
    /\ recipes = <<>>
    /\ user_favorites = <<>>
    /\ search_history = <<>>
    /\ collation \in {"ci", "bin"}
    /\ now = 0
    /\ registered = {}
    /\ issued = {}
    /\ pending = {}
    /\ connections = 0
    /\ api_called = FALSE
    /\ req = [op |-> "none"]
    /\ resp = [status |-> 0]

NextIngredients ==
    \/ \E hdr \in SessionHeaders(now), db \in BOOLEAN : improved_get_ingredients(hdr, db)
    \/ \E hdr \in SessionHeaders(now), data \in IngredientData, db \in BOOLEAN :
          improved_add_ingredient(hdr, data, db)
    \/ \E hdr \in SessionHeaders(now), i \in IngredientPaths, db \in BOOLEAN :
          improved_remove_ingredient(hdr, i, db)

SpecIngredients == InitImproved /\ [][NextIngredients]_vars

\* the user a request of app_improved.py is authenticated as, 0 when it is not
Caller(r, t) ==
    LET auth == improved_token_required(r.hdr, t) IN
    IF auth.status = 0 THEN auth.current_user_id ELSE 0

\* the user holds a row with this name
Holds(user_id, name) ==
    \E i \in 1..Len(user_ingredients) :
        /\ user_ingredients[i].user_id = user_id
        /\ user_ingredients[i].ingredient = name

C6_RemoveMissingIngredient ==
    [][(/\ req'.op = "remove_ingredient" /\ req'.app = "improved"
        /\ Caller(req', now) # 0
        /\ ~Holds(Caller(req', now), Lower(req'.ingredient)))
       => (resp'.status = 404 /\ user_ingredients' = user_ingredients)]_vars

\* nothing was ever deleted (one row inserted, one row stored) and the caller
\* asked to remove a name other than the one stored
C6_Witness ==
    /\ req.op = "remove_ingredient" /\ req.app = "improved" /\ req.db
    /\ resp.status = 404
    /\ ingredient_seq = 2 /\ Len(user_ingredients) = 1
    /\ user_ingredients[1].user_id = Caller(req, now)
    /\ user_ingredients[1].ingredient = <<"a">>
    /\ req.ingredient = <<"b">>

-----------------------------------------------------------------------------
(* app_improved.py and app.py: POST /api/recipes/search *)

\* a JSON object without keys
EmptyBody == [k \in {} |-> <<>>]

\* the bodies of POST /api/recipes/search: "a", " a ", " ", "" and no key
SearchData ==
    {[ingredients |-> t] : t \in {<<"a">>, <<" ", "a", " ">>, <<" ">>, <<>>}}
    \cup {EmptyBody}

\* the API call raises
ApiRaises ==
    [kind |-> "raise",
     content |-> [fence |-> "none", closed |-> FALSE,
                  body |-> [parses |-> FALSE, is_list |-> FALSE, items |-> <<>>]]]

\* the API answers with the JSON list of these recipes
ApiReturns(items) ==
    [kind |-> "content",
     content |-> [fence |-> "none", closed |-> FALSE,
                  body |-> [parses |-> TRUE, is_list |-> TRUE, items |-> items]]]

SearchApi ==
    {ApiRaises, ApiReturns(<<SampleRecipe>>), ApiReturns(<<SampleRecipe, IllTypedRecipe>>)}

InitSearch == InitImproved /\ collation = "ci"

NextSearch ==
    \/ \E hdr \in SessionHeaders(now), data \in SearchData, api \in SearchApi,
          db \in BOOLEAN : improved_search_recipes(hdr, data, api, db)
    \/ \E hdr \in SessionHeaders(now), db \in BOOLEAN : improved_get_history(hdr, db)

SpecSearch == InitSearch /\ [][NextSearch]_vars

NextAppSearch ==
    \/ \E hdr \in SessionHeaders(now), data \in SearchData, api \in SearchApi,
          db \in BOOLEAN : app_search_recipes(hdr, data, api, db)

SpecAppSearch == InitSearch /\ [][NextAppSearch]_vars

\* C8: every authenticated POST /api/recipes/search of app_improved.py with
\* an ingredient string that is not empty (once trimmed, the reading that
\* favours the claim) appends exactly one search_history row, for the calling
\* user, that holds the trimmed string and a recipes_found equal to the
\* 'total' of the response.  The request is one handled with a database
\* connection.
C8_SearchIsLogged ==
    [][(/\ req'.op = "search_recipes" /\ req'.app = "improved" /\ req'.db
        /\ Caller(req', now) # 0
        /\ Strip(Get(req'.data, "ingredients", <<>>)) # <<>>)
       => (/\ Len(search_history') = Len(search_history) + 1
           /\ SubSeq(search_history', 1, Len(search_history)) = search_history
           /\ search_history'[Len(search_history')].user_id = Caller(req', now)
           /\ search_history'[Len(search_history')].ingredients
                 = Strip(req'.data.ingredients)
           /\ "total" \in DOMAIN resp'
           /\ search_history'[Len(search_history')].recipes_found = resp'.total)]_vars

\* C10: an authenticated POST /api/recipes/search of app.py with a non-empty
\* ingredient string, handled (with a database connection) while the call of
\* the completion API fails, is answered 200 with recipes, not with an error.
C10_AppSearchRecoversFromApiFailure ==
    [][(/\ req'.op = "search_recipes" /\ req'.app = "app" /\ req'.db
        /\ app_token_required(req'.hdr, now).status = 0
        /\ Get(req'.data, "ingredients", <<>>) # <<>>
        /\ req'.api.kind = "raise")
       => (/\ resp'.status = 200
           /\ "total" \in DOMAIN resp'
           /\ resp'.total > 0)]_vars

-----------------------------------------------------------------------------
(* app_improved.py: the favorites of registered users, after searches *)

\* the bodies of POST /api/favorites
FavoriteData ==
    {[recipe |-> SampleRecipe], [recipe |-> [name |-> <<"Porridge">>]],
     [recipe |-> IllTypedRecipe], EmptyBody}

NextFavorites ==
    \/ \E db \in BOOLEAN :
          improved_search_recipes([kind |-> "jwt", token |-> jwt_encode(1, now, SECRET_KEY)],
                                  [ingredients |-> <<"a">>],
                                  ApiReturns(<<SampleRecipe>>), db)
    \/ \E hdr \in SessionHeaders(now), data \in FavoriteData, db \in BOOLEAN :
          improved_add_favorite_recipe(hdr, data, db)
    \/ \E hdr \in SessionHeaders(now), db \in BOOLEAN : improved_get_favorites(hdr, db)

SpecFavorites == InitSearch /\ [][NextFavorites]_vars

\* the recipe name of a POST /api/favorites, empty when it has none
FavoriteName(r) == Get(Get(r.data, "recipe", EmptyBody), "name", <<>>)

\* the user has a favorite row for a recipe of this name
HasFavorite(user_id, name) ==
    \E i \in 1..Len(user_favorites) :
        /\ user_favorites[i].user_id = user_id
        /\ recipes[user_favorites[i].recipe_id].name = name

FavoritesOf(rows, user_id) == SelectSeq(rows, LAMBDA row : row.user_id = user_id)

\* the ingredients and instructions of the body are lists of strings
WellTypedFavorite(r) ==
    /\ Get(r.data.recipe, "ingredients", StrList(<<>>)).is_str_list
    /\ Get(r.data.recipe, "instructions", StrList(<<>>)).is_str_list

\* C7 (first half): when a POST /api/favorites of a user with recipe name n
\* was answered 201, the user's next POST /api/favorites with the same name n
\* is answered 409 and adds no favorite row.
C7_SameNameTwice ==
    (/\ req.op = "add_favorite_recipe" /\ resp.status = 201
     /\ req'.op = "add_favorite_recipe" /\ req'.db
     /\ Caller(req', now) = Caller(req, now)
     /\ FavoriteName(req') = FavoriteName(req))
    => (resp'.status = 409 /\ user_favorites' = user_favorites)

\* C7 (second half): a POST /api/favorites of a user with a name m the user
\* has no favorite of is answered 201 and adds exactly one favorite row, for
\* that user.
C7_OtherName ==
    (/\ req'.op = "add_favorite_recipe" /\ req'.db
     /\ user_exists(Caller(req', now))
     /\ FavoriteName(req') # <<>>
     /\ WellTypedFavorite(req')
     /\ ~HasFavorite(Caller(req', now), FavoriteName(req')))
    => (/\ resp'.status = 201
        /\ Len(user_favorites') = Len(user_favorites) + 1
        /\ Len(FavoritesOf(user_favorites', Caller(req', now)))
              = Len(FavoritesOf(user_favorites, Caller(req', now))) + 1)

\* C7: for a single user of POST /api/favorites of app_improved.py, the same
\* recipe name a second time is a conflict that adds no row, and a name not
\* favorited yet is accepted and adds exactly one row.
C7_FavoriteByName == [][C7_SameNameTwice /\ C7_OtherName]_vars

-----------------------------------------------------------------------------
(* app_improved.py: every route, under every Authorization header, with and *)
(* without a database connection                                            *)

\* a complete body with the e-mail of a registered user in capitals, a
\* complete body with an e-mail nobody has registered, and a body without its
\* password
ImprovedRegisterData ==
    {[has |-> AllKeys, name |-> <<"Ann">>, email |-> <<"A", "@", "b", ".", "c", "o">>,
      password |-> <<"s", "e", "c", "r", "e", "t">>],
     [has |-> AllKeys, name |-> <<"Bob">>, email |-> <<"b", "@", "b", ".", "c", "o">>,
      password |-> <<"s", "e", "c", "r", "e", "t">>],
     [has |-> {"name", "email"}, name |-> <<"Ann">>,
      email |-> <<"A", "@", "b", ".", "c", "o">>, password |-> <<>>]}

\* the e-mail of a registered user and an e-mail nobody has registered, each
\* with the password of the registered users and with another, and a body
\* without password
ImprovedLoginData ==
    {[has |-> {"email", "password"}, email |-> e, password |-> p] :
        e \in {<<"a", "@", "b", ".", "c", "o">>, <<"b", "@", "b", ".", "c", "o">>},
        p \in Passwords}
    \cup {[has |-> {"email"}, email |-> <<"a", "@", "b", ".", "c", "o">>,
           password |-> <<>>]}

\* one Authorization header of each kind: none, text that is no token, a
\* token signed with another key, an expired token, a token without user_id,
\* and the token the server issues to user 1
ProbeHeaders(t) ==
    {[kind |-> "missing", token |-> NoToken],
     [kind |-> "garbage", token |-> NoToken],
     [kind |-> "jwt", token |-> jwt_encode(1, t, "other-key")],
     [kind |-> "jwt", token |-> jwt_encode(1, t - timedelta(JWT_EXPIRATION_DAYS), SECRET_KEY)],
     [kind |-> "jwt", token |-> [key |-> SECRET_KEY, has_user_id |-> FALSE,
                                 user_id |-> 0, exp |-> t + timedelta(JWT_EXPIRATION_DAYS)]],
     [kind |-> "jwt", token |-> jwt_encode(1, t, SECRET_KEY)]}

NextImproved ==
    \/ \E data \in ImprovedRegisterData, db \in BOOLEAN : improved_register(data, db)
    \/ \E data \in ImprovedLoginData, db \in BOOLEAN : improved_login(data, db)
    \/ \E hdr \in ProbeHeaders(now), db \in BOOLEAN :
          improved_search_recipes(hdr, [ingredients |-> <<"a">>], ApiRaises, db)
    \/ \E hdr \in ProbeHeaders(now), db \in BOOLEAN : improved_get_ingredients(hdr, db)
    \/ \E hdr \in ProbeHeaders(now), db \in BOOLEAN :
          improved_add_ingredient(hdr, [has |-> {"ingredient"}, ingredient |-> <<"a">>], db)
    \/ \E hdr \in ProbeHeaders(now), db \in BOOLEAN :
          improved_remove_ingredient(hdr, <<"a">>, db)
    \/ \E hdr \in ProbeHeaders(now), db \in BOOLEAN : improved_get_favorites(hdr, db)
    \/ \E hdr \in ProbeHeaders(now), db \in BOOLEAN :
          improved_add_favorite_recipe(hdr, [recipe |-> SampleRecipe], db)
    \/ \E hdr \in ProbeHeaders(now), db \in BOOLEAN : improved_get_history(hdr, db)
    \/ \E hdr \in ProbeHeaders(now), db \in BOOLEAN : improved_get_profile(hdr, db)
    \/ \E hdr \in ProbeHeaders(now), db \in BOOLEAN : improved_get_user_stats(hdr, db)

SpecImproved == InitSearch /\ [][NextImproved]_vars

\* the routes of app_improved.py that token_required wraps
WrappedOps ==
    {"search_recipes", "get_ingredients", "add_ingredient", "remove_ingredient",
     "get_favorites", "add_favorite_recipe", "get_history", "get_profile",
     "get_user_stats"}

\* the header is missing, is no token signed with the server's key, is
\* expired, or carries no user_id
NotAuthorized(hdr, t) ==
    \/ hdr.kind # "jwt"
    \/ hdr.token.key # SECRET_KEY
    \/ hdr.token.exp <= t
    \/ ~hdr.token.has_user_id

\* C4: a request to a route of app_improved.py that token_required wraps,
\* whose Authorization header is missing, is no token signed with the server
\* key, is expired or carries no user_id claim, is answered 401, and no table
\* is changed (the handler did not run).
C4_NotAuthorizedIs401 ==
    [][(/\ req'.op \in WrappedOps /\ req'.app = "improved"
        /\ NotAuthorized(req'.hdr, now))
       => (resp'.status = 401 /\ tables' = tables)]_vars

\* the request gets as far as a statement of models.py: it passes
\* token_required and the handler's check of its body
ReachesDatabase(r, t) ==
    IF r.op \in {"register", "login"}
    THEN (IF r.op = "register" THEN AllKeys ELSE {"email", "password"}) \subseteq r.data.has
    ELSE /\ Caller(r, t) # 0
         /\ r.op = "search_recipes" => Strip(Get(r.data, "ingredients", <<>>)) # <<>>
         /\ r.op = "add_ingredient" =>
               "ingredient" \in r.data.has /\ Strip(r.data.ingredient) # <<>>
         /\ r.op = "add_favorite_recipe" => FavoriteName(r) # <<>>

\* C9: a request to a route of app_improved.py that reads or writes the
\* database (register, login, ingredients, favorites, history, profile,
\* search, stats), handled while Database.get_connection obtains no
\* connection, is answered 500.
C9_NoConnectionIs500 ==
    [][(/\ req'.op \in WrappedOps \cup {"register", "login"} /\ req'.app = "improved"
        /\ ~req'.db
        /\ ReachesDatabase(req', now))
       => resp'.status = 500]_vars

\* C11: a POST /api/register of app_improved.py that carries a name, a
\* well-formed e-mail that no stored user has (in any case of its letters)
\* and a password of at least 6 characters is answered 201, adds exactly one
\* row to users, and returns a token whose user_id is the id of that row.
\* The request is one handled with a database connection.
C11_ImprovedRegisterCreatesUser ==
    [][(/\ req'.op = "register" /\ req'.app = "improved" /\ req'.db
        /\ AllKeys \subseteq req'.data.has
        /\ req'.data.name # <<>>
        /\ email_pattern_match(req'.data.email)
        /\ Len(req'.data.password) >= 6
        /\ \A i \in 1..Len(users) : Lower(users[i].email) # Lower(req'.data.email))
       => (/\ resp'.status = 201
           /\ Len(users') = Len(users) + 1
           /\ SubSeq(users', 1, Len(users)) = users
           /\ "token" \in DOMAIN resp'
           /\ resp'.token.user_id = users'[Len(users')].id)]_vars

\* these rows of user_ingredients list the name for the user
HoldsIn(rows, user_id, name) ==
    \E i \in 1..Len(rows) : rows[i].user_id = user_id /\ rows[i].ingredient = name

\* C12: a DELETE /api/ingredients/<ingredient> of app_improved.py for a name
\* the calling user holds (compared case-insensitively) is answered 200, and
\* afterwards the user's ingredients no longer list the name.  The request is
\* one handled with a database connection.
C12_RemoveHeldIngredient ==
    [][(/\ req'.op = "remove_ingredient" /\ req'.app = "improved" /\ req'.db
        /\ Caller(req', now) # 0
        /\ HoldsIn(user_ingredients, Caller(req', now), Lower(req'.ingredient)))
       => (/\ resp'.status = 200
           /\ ~HoldsIn(user_ingredients', Caller(req', now), Lower(req'.ingredient)))]_vars

\* the answer of the API is a content that, with its fences cut, parses as a
\* JSON list whose elements all have the six required fields
IsValidRecipeList(api) ==
    /\ api.kind = "content"
    /\ api.content.fence = "none" \/ api.content.closed
    /\ api.content.body.parses
    /\ api.content.body.is_list
    /\ \A i \in 1..Len(api.content.body.items) :
          required_fields \subseteq DOMAIN api.content.body.items[i]

\* C13: whatever the call of the API does, RecipeService.generate_recipes
\* returns (it does not raise), and what it returns is the parsed list as it
\* is when the fence-stripped content parses as a JSON list whose elements
\* all have the six required fields, and the three fallback recipes in every
\* other case.
C13_ParsedListOrFallback ==
    (req.op = "generate_recipes" /\ resp.status = 1) =>
        IF IsValidRecipeList(req.api)
        THEN resp.recipes = req.api.content.body.items
        ELSE /\ resp.recipes = get_fallback_recipes(req.ingredients)
             /\ Len(resp.recipes) = 3

\* a list whose second recipe lacks a field was answered with the fallback
C13_Witness ==
    /\ req.op = "generate_recipes" /\ resp.status = 1
    /\ req.api.kind = "content" /\ req.api.content.fence = "json"
    /\ req.api.content.closed
    /\ req.api.content.body.items = <<SampleRecipe, IncompleteRecipe>>
    /\ req.ingredients = <<"a">>
    /\ Len(resp.recipes) = 3
    /\ resp.recipes[1].name = <<"Simple ", "a", " Dish">>

\* the text has the shape local@domain.tld: an @ after a first part, a dot
\* after a second part, and a last part
HasEmailShape(e) ==
    \E i \in 2..Len(e) : \E j \in (i + 2)..(Len(e) - 1) : e[i] = "@" /\ e[j] = "."

\* C14: in every state, a POST /api/register of app.py whose password has
\* fewer than 6 characters, whose e-mail does not have the shape
\* local@domain.tld, or that lacks name, e-mail or password, is answered 400
\* and the users table is left as it was.
C14_InvalidRegistrationIs400 ==
    [][(/\ req'.op = "register" /\ req'.app = "app"
        /\ \/ Falsy(req'.data, "name")
           \/ Falsy(req'.data, "email")
           \/ Falsy(req'.data, "password")
           \/ ~HasEmailShape(req'.data.email)
           \/ Len(req'.data.password) < 6)
       => (resp'.status = 400 /\ users' = users)]_vars

\* a five-character password was refused while a user was stored
C14_Witness ==
    /\ req.op = "register" /\ req.app = "app" /\ req.db
    /\ req.data.has = AllKeys
    /\ req.data.email = <<"c", "@", "b", ".", "c", "o">>
    /\ Len(req.data.password) = 5
    /\ resp.status = 400
    /\ Len(users) = 1

\* the rows of users a login with this e-mail selects
UsersWithEmail(email) == {i \in 1..Len(users) : SqlEq(users[i].email, email)}

\* the password is the one the stored hash was made of
IsPasswordOf(row, password) ==
    row.password_hash = generate_password_hash(password, row.password_hash.salt)

\* C15: a POST /api/login of app_improved.py with an e-mail and a password is
\* answered 200 with a token only when the password is the one whose hash is
\* stored for the user with that e-mail; when no user has the e-mail and when
\* the password is not the stored one, the answer is the same 401 body,
\* without a token.
C15_LoginRevealsNothing ==
    (/\ req.op = "login" /\ req.app = "improved"
     /\ {"email", "password"} \subseteq req.data.has)
    => /\ resp.status = 200 =>
             /\ "token" \in DOMAIN resp
             /\ \E i \in UsersWithEmail(req.data.email) :
                   /\ IsPasswordOf(users[i], req.data.password)
                   /\ resp.token.user_id = users[i].id
       /\ (\A i \in UsersWithEmail(req.data.email) :
              ~IsPasswordOf(users[i], req.data.password))
             => resp = [status |-> 401, error |-> "Invalid email or password"]

\* a registered user's e-mail with another password was refused
C15_Witness ==
    /\ req.op = "login" /\ req.app = "improved" /\ req.db
    /\ req.data.has = {"email", "password"}
    /\ UsersWithEmail(req.data.email) = {1}
    /\ ~IsPasswordOf(users[1], req.data.password)
    /\ resp = [status |-> 401, error |-> "Invalid email or password"]

-----------------------------------------------------------------------------
(* app_improved.py while the clock runs: users log in, and the protected    *)
(* routes are called with the token the last login has issued.  The routes  *)
(* that read are called with a database connection, the routes that write   *)
(* without one.                                                             *)

Bearer(token) == [kind |-> "jwt", token |-> token]

IssuedHeaders == {Bearer(i.token) : i \in issued}

NextSession ==
    \/ \E data \in ImprovedLoginData, db \in BOOLEAN : improved_login(data, db)
    \/ Tick
    \/ \E hdr \in IssuedHeaders :
          improved_search_recipes(hdr, [ingredients |-> <<"a">>], ApiRaises, FALSE)
    \/ \E hdr \in IssuedHeaders : improved_get_ingredients(hdr, TRUE)
    \/ \E hdr \in IssuedHeaders :
          improved_add_ingredient(hdr, [has |-> {"ingredient"}, ingredient |-> <<"a">>],
                                  FALSE)
    \/ \E hdr \in IssuedHeaders : improved_remove_ingredient(hdr, <<"a">>, FALSE)
    \/ \E hdr \in IssuedHeaders : improved_get_favorites(hdr, TRUE)
    \/ \E hdr \in IssuedHeaders :
          improved_add_favorite_recipe(hdr, [recipe |-> SampleRecipe], FALSE)
    \/ \E hdr \in IssuedHeaders : improved_get_history(hdr, TRUE)
    \/ \E hdr \in IssuedHeaders : improved_get_profile(hdr, TRUE)
    \/ \E hdr \in IssuedHeaders : improved_get_user_stats(hdr, TRUE)

SpecSession == InitSearch /\ [][NextSession]_vars

\* the step answers a request to a protected route that carries the token i
Carries(i) ==
    /\ now' = now
    /\ req'.app = "improved"
    /\ req'.op \in WrappedOps
    /\ req'.hdr = Bearer(i.token)

\* token_required lets the request of the step through
Accepted ==
    /\ improved_token_required(req'.hdr, now).status = 0
    /\ resp'.status # 401

\* token_required rejects the token i as expired at time t
RejectedAsExpired(i, t) ==
    improved_token_required(Bearer(i.token), t).error = "Token has expired"

-----------------------------------------------------------------------------
(* app_improved.py served by two workers.  Every execute_query of models.py *)
(* is a transaction of its own (connect, execute, commit, close), so the    *)
(* SELECT by which a handler looks for a row and the INSERT that follows    *)
(* are two steps, and another worker's statements can run between them.     *)
(* pending holds the requests that have passed their checks and not yet     *)
(* inserted.                                                                *)

Workers == {1, 2}

PendingOf(w) == {p \in pending : p.worker = w}

\* add_ingredient up to and including ingredient_exists
add_ingredient_checks(hdr, data, db) ==
    LET auth == improved_token_required(hdr, now)
        ingredient == Strip(IF "ingredient" \in data.has THEN data.ingredient ELSE <<>>)
    IN
    IF auth.status # 0
    THEN [returned |-> TRUE, resp |-> [status |-> auth.status, error |-> auth.error]]
    ELSE IF ingredient = <<>>
    THEN [returned |-> TRUE,
          resp |-> [status |-> 400, error |-> "Ingredient name is required"]]
    ELSE IF ingredient_exists(db, auth.current_user_id, ingredient)
    THEN [returned |-> TRUE,
          resp |-> [status |-> 409, error |-> "Ingredient already added"]]
    ELSE [returned |-> FALSE, current_user_id |-> auth.current_user_id,
          ingredient |-> ingredient]

begin_add_ingredient(w, hdr, data, db) ==
    \E c \in {add_ingredient_checks(hdr, data, db)} :
    /\ PendingOf(w) = {}
    /\ IF c.returned
       THEN /\ req' = [op |-> "add_ingredient", app |-> "improved", hdr |-> hdr,
                       data |-> data, db |-> db]
            /\ resp' = c.resp
            /\ UNCHANGED pending
       ELSE /\ pending' = pending \cup
                   {[worker |-> w, op |-> "add_ingredient", hdr |-> hdr, data |-> data,
                     db |-> db, current_user_id |-> c.current_user_id,
                     ingredient |-> c.ingredient]}
            /\ UNCHANGED <<req, resp>>
    /\ UNCHANGED <<tables, collation, now, registered, issued, connections, api_called>>

\* add_ingredient from ingredient_model.add_ingredient on
finish_add_ingredient(w) ==
    \E p \in PendingOf(w) :
    /\ p.op = "add_ingredient"
    /\ \E ins \in {Ingredient_add_ingredient(p.db, p.current_user_id, p.ingredient)} :
        /\ ins.seq <= MaxIngredientRows + 1
        /\ req' = [op |-> "add_ingredient", app |-> "improved", hdr |-> p.hdr,
                   data |-> p.data, db |-> p.db]
        /\ resp' = IF ins.lastrowid # 0
                   THEN [status |-> 201, error |-> "", ingredient |-> Lower(p.ingredient)]
                   ELSE [status |-> 500, error |-> "Failed to add ingredient"]
        /\ user_ingredients' = ins.rows
        /\ ingredient_seq' = ins.seq
    /\ pending' = pending \ {p}
    /\ UNCHANGED <<users, recipes, user_favorites, search_history, collation, now,
                   registered, issued, connections, api_called>>

\* the JSON bodies of the concurrent POST /api/ingredients: a, A and " "
ConcurrentIngredientData ==
    {[has |-> {"ingredient"}, ingredient |-> i] : i \in {<<"a">>, <<"A">>, <<" ">>}}

NextConcurrentIngredients ==
    \/ \E w \in Workers, hdr \in SessionHeaders(now), data \in ConcurrentIngredientData,
          db \in BOOLEAN :
          begin_add_ingredient(w, hdr, data, db)
    \/ \E w \in Workers : finish_add_ingredient(w)
    \/ \E hdr \in SessionHeaders(now), db \in BOOLEAN : improved_get_ingredients(hdr, db)

SpecConcurrentIngredients == InitImproved /\ [][NextConcurrentIngredients]_vars

\* C17: in every reachable state, including states reached by interleaving
\* two concurrent POST /api/ingredients requests of the same user for the
\* same name, the ingredients table holds at most one row per (user_id,
\* ingredient name).
C17_OneRowPerUserAndName ==
    \A i, j \in 1..Len(user_ingredients) :
        /\ user_ingredients[i].user_id = user_ingredients[j].user_id
        /\ user_ingredients[i].ingredient = user_ingredients[j].ingredient
        => i = j

\* add_favorite_recipe up to and including is_favorite
add_favorite_checks(hdr, data, db) ==
    LET auth == improved_token_required(hdr, now)
        recipe_data == Get(data, "recipe", [x \in {} |-> <<>>])
    IN
    IF auth.status # 0
    THEN [returned |-> TRUE, rows |-> recipes,
          resp |-> [status |-> auth.status, error |-> auth.error]]
    ELSE IF DOMAIN recipe_data = {} \/ Get(recipe_data, "name", <<>>) = <<>>
    THEN [returned |-> TRUE, rows |-> recipes,
          resp |-> [status |-> 400, error |-> "Recipe data is required"]]
    ELSE LET found == find_or_create_recipe(db, recipe_data) IN
         IF found.raised
         THEN [returned |-> TRUE, rows |-> recipes,
               resp |-> [status |-> 500, error |-> "Failed to add favorite"]]
         ELSE IF found.recipe_id = 0
         THEN [returned |-> TRUE, rows |-> recipes,
               resp |-> [status |-> 500, error |-> "Failed to create recipe"]]
         ELSE IF Favorite_is_favorite(db, auth.current_user_id, found.recipe_id)
         THEN [returned |-> TRUE, rows |-> found.rows,
               resp |-> [status |-> 409, error |-> "Recipe already in favorites"]]
         ELSE [returned |-> FALSE, rows |-> found.rows,
               current_user_id |-> auth.current_user_id, recipe_id |-> found.recipe_id]

begin_add_favorite_recipe(w, hdr, data, db) ==
    \E c \in {add_favorite_checks(hdr, data, db)} :
    /\ PendingOf(w) = {}
    /\ Len(c.rows) <= MaxRecipes
    /\ recipes' = c.rows
    /\ IF c.returned
       THEN /\ req' = [op |-> "add_favorite_recipe", app |-> "improved", hdr |-> hdr,
                       data |-> data, db |-> db]
            /\ resp' = c.resp
            /\ UNCHANGED pending
       ELSE /\ pending' = pending \cup
                   {[worker |-> w, op |-> "add_favorite_recipe", hdr |-> hdr,
                     data |-> data, db |-> db, current_user_id |-> c.current_user_id,
                     recipe_id |-> c.recipe_id]}
            /\ UNCHANGED <<req, resp>>
    /\ UNCHANGED <<users, user_ingredients, ingredient_seq, user_favorites,
                   search_history, collation, now, registered, issued, connections, api_called>>

\* add_favorite_recipe from favorite_model.add_favorite on
finish_add_favorite_recipe(w) ==
    \E p \in PendingOf(w) :
    /\ p.op = "add_favorite_recipe"
    /\ \E ins \in {Favorite_add_favorite(p.db, recipes, p.current_user_id, p.recipe_id)} :
        /\ Len(ins.rows) <= MaxFavorites
        /\ req' = [op |-> "add_favorite_recipe", app |-> "improved", hdr |-> p.hdr,
                   data |-> p.data, db |-> p.db]
        /\ resp' = IF ins.lastrowid # 0
                   THEN [status |-> 201, error |-> ""]
                   ELSE [status |-> 500, error |-> "Failed to add to favorites"]
        /\ user_favorites' = ins.rows
    /\ pending' = pending \ {p}
    /\ UNCHANGED <<users, user_ingredients, ingredient_seq, recipes, search_history,
                   collation, now, registered, issued, connections, api_called>>

\* the JSON bodies of the concurrent POST /api/favorites
ConcurrentFavoriteData == {[recipe |-> SampleRecipe], EmptyBody}

NextConcurrentFavorites ==
    \/ \E w \in Workers, hdr \in SessionHeaders(now), data \in ConcurrentFavoriteData,
          db \in BOOLEAN :
          begin_add_favorite_recipe(w, hdr, data, db)
    \/ \E w \in Workers : finish_add_favorite_recipe(w)
    \/ \E hdr \in SessionHeaders(now), db \in BOOLEAN : improved_get_favorites(hdr, db)

SpecConcurrentFavorites == InitSearch /\ [][NextConcurrentFavorites]_vars

\* C18: in every reachable state, including states reached by interleaving
\* two concurrent POST /api/favorites requests of the same user for the same
\* recipe name, the favorites table holds at most one row per (user_id,
\* recipe_id).
C18_OneRowPerUserAndRecipe ==
    \A i, j \in 1..Len(user_favorites) :
        /\ user_favorites[i].user_id = user_favorites[j].user_id
        /\ user_favorites[i].recipe_id = user_favorites[j].recipe_id
        => i = j

-----------------------------------------------------------------------------
(* app.py: the ingredient routes.  Each handler opens one connection and    *)
(* runs its statements on one cursor.                                       *)

app_get_user_ingredients_result(hdr, db) ==
    LET auth == app_token_required(hdr, now) IN
    IF auth.status # 0
    THEN {[status |-> auth.status, error |-> auth.error]}
    ELSE IF ~db
    THEN {[status |-> 500, error |-> "Database connection failed"]}
    ELSE LET mine == SelectSeq(user_ingredients,
                               LAMBDA row : row.user_id = auth.current_user_id) IN
         {[status |-> 200, error |-> "",
           ingredients |-> [i \in 1..Len(rows) |-> rows[i].ingredient]] :
            rows \in order_by_desc(mine, added_ats(mine))}

app_get_user_ingredients(hdr, db) ==
    /\ req' = [op |-> "get_ingredients", app |-> "app", hdr |-> hdr, db |-> db]
    /\ resp' \in app_get_user_ingredients_result(hdr, db)
    /\ UNCHANGED <<tables, collation, now, registered, issued, pending, connections, api_called>>

\* add_ingredient: the name is stripped and lowercased before anything else.
\* cursor.fetchone() returns the first of the rows found; when more were
\* found, cursor.close() in the finally clause raises InternalError (Unread
\* result found), which replaces the 409 and skips connection.close().  The
\* INSERT fails on the foreign key when the token's user has no row.
app_add_ingredient_result(hdr, data, db) ==
    LET auth == app_token_required(hdr, now)
        ingredient == Lower(Strip(IF "ingredient" \in data.has THEN data.ingredient
                                  ELSE <<>>))
        same == [rows |-> user_ingredients, seq |-> ingredient_seq, left_open |-> 0]
    IN
    IF auth.status # 0
    THEN [resp |-> [status |-> auth.status, error |-> auth.error]] @@ same
    ELSE IF ingredient = <<>>
    THEN [resp |-> [status |-> 400, error |-> "Ingredient name is required"]] @@ same
    ELSE IF ~db
    THEN [resp |-> [status |-> 500, error |-> "Database connection failed"]] @@ same
    ELSE LET found == ingredient_rows(auth.current_user_id, ingredient) IN
         IF Len(found) > 1
         THEN [resp |-> [status |-> 500, error |-> "Internal server error"],
               rows |-> user_ingredients, seq |-> ingredient_seq, left_open |-> 1]
         ELSE IF Len(found) = 1
         THEN [resp |-> [status |-> 409, error |-> "Ingredient already added"]] @@ same
         ELSE IF ~user_exists(auth.current_user_id)
         THEN [resp |-> [status |-> 500, error |-> "Failed to add ingredient"]] @@ same
         ELSE [resp |-> [status |-> 201, error |-> "", ingredient |-> ingredient],
               rows |-> Append(user_ingredients,
                               [id |-> ingredient_seq, user_id |-> auth.current_user_id,
                                ingredient |-> ingredient,
                                added_at |-> CURRENT_TIMESTAMP(now)]),
               seq |-> ingredient_seq + 1, left_open |-> 0]

app_add_ingredient(hdr, data, db) ==
    \E r \in {app_add_ingredient_result(hdr, data, db)} :
    /\ r.seq <= MaxIngredientRows + 1
    /\ req' = [op |-> "add_ingredient", app |-> "app", hdr |-> hdr,
               data |-> data, db |-> db]
    /\ resp' = r.resp
    /\ user_ingredients' = r.rows
    /\ ingredient_seq' = r.seq
    /\ connections' = connections + r.left_open
    /\ connections' <= MaxConnections
    /\ UNCHANGED <<users, recipes, user_favorites, search_history, collation, now,
                   registered, issued, pending, api_called>>

\* remove_ingredient: cursor.rowcount is the number of rows the DELETE removed
app_remove_ingredient_result(hdr, ingredient, db) ==
    LET auth == app_token_required(hdr, now) IN
    IF auth.status # 0
    THEN [resp |-> [status |-> auth.status, error |-> auth.error],
          rows |-> user_ingredients]
    ELSE IF ~db
    THEN [resp |-> [status |-> 500, error |-> "Database connection failed"],
          rows |-> user_ingredients]
    ELSE LET kept == SelectSeq(user_ingredients,
                       LAMBDA row : ~(row.user_id = auth.current_user_id
                                      /\ SqlEq(row.ingredient, Lower(ingredient))))
         IN
         IF Len(user_ingredients) - Len(kept) = 0
         THEN [resp |-> [status |-> 404, error |-> "Ingredient not found"], rows |-> kept]
         ELSE [resp |-> [status |-> 200, error |-> ""], rows |-> kept]

app_remove_ingredient(hdr, ingredient, db) ==
    \E r \in {app_remove_ingredient_result(hdr, ingredient, db)} :
    /\ req' = [op |-> "remove_ingredient", app |-> "app", hdr |-> hdr,
               ingredient |-> ingredient, db |-> db]
    /\ resp' = r.resp
    /\ user_ingredients' = r.rows
    /\ UNCHANGED <<users, ingredient_seq, recipes, user_favorites, search_history,
                   collation, now, registered, issued, pending, connections, api_called>>

\* the JSON bodies of POST /api/ingredients: " A ", "a", "B c", " " and no key
NamedIngredientData ==
    {[has |-> {"ingredient"}, ingredient |-> i] :
        i \in {<<" ", "A", " ">>, <<"a">>, <<"B", " ", "c">>, <<" ">>}}
    \cup {[has |-> {}, ingredient |-> <<>>]}

\* the ingredient endpoints of both applications, on the same tables
NextIngredientEndpoints ==
    \/ \E hdr \in SessionHeaders(now), db \in BOOLEAN : improved_get_ingredients(hdr, db)
    \/ \E hdr \in SessionHeaders(now), data \in NamedIngredientData, db \in BOOLEAN :
          improved_add_ingredient(hdr, data, db)
    \/ \E hdr \in SessionHeaders(now), i \in IngredientPaths, db \in BOOLEAN :
          improved_remove_ingredient(hdr, i, db)
    \/ \E hdr \in SessionHeaders(now), db \in BOOLEAN : app_get_user_ingredients(hdr, db)
    \/ \E hdr \in SessionHeaders(now), data \in NamedIngredientData, db \in BOOLEAN :
          app_add_ingredient(hdr, data, db)
    \/ \E hdr \in SessionHeaders(now), i \in IngredientPaths, db \in BOOLEAN :
          app_remove_ingredient(hdr, i, db)

SpecIngredientEndpoints == InitImproved /\ [][NextIngredientEndpoints]_vars

\* C19: in every state reachable through the ingredient endpoints, every
\* stored ingredient name is lowercase and has no leading or trailing
\* whitespace, and the name returned in the 201 response of add-ingredient
\* equals the stored name.
C19_StoredNamesAreNormalised ==
    /\ \A i \in 1..Len(user_ingredients) :
          /\ Lower(user_ingredients[i].ingredient) = user_ingredients[i].ingredient
          /\ Strip(user_ingredients[i].ingredient) = user_ingredients[i].ingredient
    /\ req.op = "add_ingredient" /\ resp.status = 201 =>
          /\ user_ingredients # <<>>
          /\ resp.ingredient = user_ingredients[Len(user_ingredients)].ingredient

\* each application has stored a name that was sent with capitals and
\* surrounding blanks
C19_Witness ==
    /\ req.op = "add_ingredient"
    /\ resp.status = 201
    /\ req.data.ingredient = <<" ", "A", " ">>
    /\ resp.ingredient = <<"a">>
    /\ \E i \in 1..Len(user_ingredients) :
          user_ingredients[i].ingredient = <<"b", " ", "c">>

-----------------------------------------------------------------------------
\* the rows of recipes whose name is exactly n
RowsNamed(n) == {i \in 1..Len(recipes) : recipes[i].name = n}

\* C20: POST /api/favorites (app_improved.add_favorite_recipe) with recipe
\* name n inserts a new recipe row only when no recipe row with exactly the
\* name n exists; when one exists the recipes table is left unchanged and the
\* favorite refers to an existing row with that name.
C20_RecipeInsertedOnlyForNewName ==
    [][(/\ req'.op = "add_favorite_recipe" /\ req'.app = "improved" /\ req'.db
        /\ Caller(req', now) # 0
        /\ FavoriteName(req') # <<>>)
       => /\ recipes' # recipes => RowsNamed(FavoriteName(req')) = {}
          /\ RowsNamed(FavoriteName(req')) # {} =>
                /\ recipes' = recipes
                /\ resp'.status = 201 =>
                      user_favorites'[Len(user_favorites')].recipe_id
                          \in RowsNamed(FavoriteName(req'))]_vars

-----------------------------------------------------------------------------
(* The database connections.  The handlers of app.py other than             *)
(* search_recipes close the cursor and the connection in a finally clause,  *)
(* and so does Database.execute_query, on which every route of              *)
(* app_improved.py rests: they leave connections as it was.                 *)

\* the unexpired token of a user whose row has been removed since
OrphanHeader(t) == Bearer(jwt_encode(Len(RegisteredUsers) + 1, t, SECRET_KEY))

\* the token of user 1 and the token of the removed user
ConnectionHeaders(t) == {Bearer(jwt_encode(1, t, SECRET_KEY)), OrphanHeader(t)}

NextConnections ==
    \/ \E hdr \in ConnectionHeaders(now), api \in {ApiRaises, ApiReturns(<<SampleRecipe>>)},
          db \in BOOLEAN :
          app_search_recipes(hdr, [ingredients |-> <<"a">>], api, db)
    \/ \E hdr \in ConnectionHeaders(now), db \in BOOLEAN : app_get_profile(hdr, db)
    \/ \E hdr \in ConnectionHeaders(now), db \in BOOLEAN :
          app_get_user_ingredients(hdr, db)
    \/ \E hdr \in ConnectionHeaders(now), db \in BOOLEAN :
          app_add_ingredient(hdr, [has |-> {"ingredient"}, ingredient |-> <<"a">>], db)
    \/ \E hdr \in ConnectionHeaders(now), db \in BOOLEAN :
          app_remove_ingredient(hdr, <<"a">>, db)
    \/ \E hdr \in ConnectionHeaders(now), db \in BOOLEAN :
          improved_get_ingredients(hdr, db)
    \/ \E hdr \in ConnectionHeaders(now), db \in BOOLEAN :
          improved_add_ingredient(hdr, [has |-> {"ingredient"}, ingredient |-> <<"b">>], db)

SpecConnections == InitSearch /\ [][NextConnections]_vars

\* C21: every database connection opened while handling a request is closed
\* by the time the response is returned, on every path including error
\* paths, for every handler of app.py and for every call of
\* Database.execute_query.
C21_ConnectionsAreClosed == connections = 0

-----------------------------------------------------------------------------
(* app_improved.py used by several users: ingredients, searches, favorites  *)
(* and the lists of each.  The API finds no recipe, so that the searches    *)
(* add history rows only.                                                   *)

\* the unexpired tokens the server signs
TenantHeaders(t) == {Bearer(jwt_encode(u, t, SECRET_KEY)) : u \in 1..MaxUsers}

NextTenants ==
    \/ \E hdr \in TenantHeaders(now), db \in BOOLEAN : improved_get_ingredients(hdr, db)
    \/ \E hdr \in TenantHeaders(now) :
          improved_add_ingredient(hdr, [has |-> {"ingredient"}, ingredient |-> <<"a">>],
                                  TRUE)
    \/ \E hdr \in TenantHeaders(now) : improved_remove_ingredient(hdr, <<"a">>, TRUE)
    \/ \E hdr \in TenantHeaders(now) :
          improved_search_recipes(hdr, [ingredients |-> <<"a">>], ApiReturns(<<>>), TRUE)
    \/ \E hdr \in TenantHeaders(now) :
          improved_add_favorite_recipe(hdr, [recipe |-> SampleRecipe], TRUE)
    \/ \E hdr \in TenantHeaders(now), db \in BOOLEAN : improved_get_history(hdr, db)

SpecTenants == InitSearch /\ [][NextTenants]_vars

\* what GET /api/ingredients and GET /api/history read for user u
ListsOf(u) ==
    <<Ingredient_get_user_ingredients(TRUE, u),
      SearchHistory_get_user_history(TRUE, u, HISTORY_LIMIT)>>

\* the rows of the three tables with a user_id column that belong to others
RowsOfOthers(u) ==
    <<SelectSeq(user_ingredients, LAMBDA row : row.user_id # u),
      SelectSeq(search_history, LAMBDA row : row.user_id # u),
      SelectSeq(user_favorites, LAMBDA row : row.user_id # u)>>

\* C22: for any two distinct users A and B, no request authenticated as B
\* changes the result of A's GET /api/ingredients or GET /api/history: each
\* handler writes only rows whose user_id equals the user_id carried by the
\* request's token.
C22_UsersAreIsolated ==
    [][\A B \in 1..MaxUsers :
          (req'.app = "improved" /\ Caller(req', now) = B)
          => /\ \A A \in 1..MaxUsers \ {B} : ListsOf(A)' = ListsOf(A)
             /\ RowsOfOthers(B)' = RowsOfOthers(B)]_vars

\* user 2 has added an ingredient and searched after user 1 did
C22_Witness ==
    /\ \E i, j \in 1..Len(user_ingredients) :
          i < j /\ user_ingredients[i].user_id = 1 /\ user_ingredients[j].user_id = 2
    /\ \E i, j \in 1..Len(search_history) :
          i < j /\ search_history[i].user_id = 1 /\ search_history[j].user_id = 2
    /\ Caller(req, now) = 2
    /\ req.op = "search_recipes"
    /\ resp.status = 200


-----------------------------------------------------------------------------
(* GET /api/history of both applications, for a user with a long history   *)

\* app.py get_search_history: the same SELECT with LIMIT 20, 500 without a
\* connection
app_get_search_history_result(hdr, db) ==
    LET auth == app_token_required(hdr, now) IN
    IF auth.status # 0
    THEN {[status |-> auth.status, error |-> auth.error]}
    ELSE IF ~db
    THEN {[status |-> 500, error |-> "Database connection failed"]}
    ELSE LET mine == SelectSeq(search_history,
                               LAMBDA row : row.user_id = auth.current_user_id) IN
         {[status |-> 200, error |-> "",
           history |-> history_rows(Take(sorted, HISTORY_LIMIT))] :
            sorted \in order_by_desc(mine, search_times(mine))}

app_get_search_history(hdr, db) ==
    /\ req' = [op |-> "get_history", app |-> "app", hdr |-> hdr, db |-> db]
    /\ resp' \in app_get_search_history_result(hdr, db)
    /\ UNCHANGED <<tables, collation, now, registered, issued, pending, connections, api_called>>

\* the history of user 1 before the run: one search less than the limit, one
\* search a second, the last of them one second before the start
SeededHistory ==
    [i \in 1..(HISTORY_LIMIT - 1) |->
        [id |-> i, user_id |-> 1, ingredients |-> <<"a">>,
         recipes_found |-> SAMPLE_RECIPES,
         search_time |-> (i - HISTORY_LIMIT) * TICKS_PER_SECOND]]

InitHistory ==
    /\ users = RegisteredUsers
    /\ user_ingredients = <<>>
    /\ ingredient_seq = 1
    /\ recipes = <<>>
    /\ user_favorites = <<>>
    /\ search_history = SeededHistory
    /\ collation = "ci"
    /\ now = 0
    /\ registered = {}
    /\ issued = {}
    /\ pending = {}
    /\ connections = 0
    /\ api_called = FALSE
    /\ req = [op |-> "none"]
    /\ resp = [status |-> 0]

\* the clock of the runs with a long history stops after this many days
MaxHistoryDays == 1

\* user 1 searches "a" and user 2 searches "c" with app_improved.py, user 1
\* searches "b" with app.py: three requests whose rows differ
NextHistory ==
    \/ \E u \in 1..MaxUsers :
          improved_search_recipes(Bearer(jwt_encode(u, now, SECRET_KEY)),
              [ingredients |-> IF u = 1 THEN <<"a">> ELSE <<"c">>],
              ApiReturns(<<>>), TRUE)
    \/ app_search_recipes(Bearer(jwt_encode(1, now, SECRET_KEY)),
                          [ingredients |-> <<"b">>], ApiReturns(<<>>), TRUE)
    \/ \E hdr \in TenantHeaders(now) : improved_get_history(hdr, TRUE)
    \/ \E hdr \in TenantHeaders(now), db \in BOOLEAN : app_get_search_history(hdr, db)
    \/ \E hdr \in TenantHeaders(now) : improved_get_user_stats(hdr, TRUE)
    \/ Tick /\ now' <= timedelta(MaxHistoryDays)

SpecHistory == InitHistory /\ [][NextHistory]_vars

\* the searches of a user, the search made last first
SearchesOf(u) == Reverse(SelectSeq(search_history, LAMBDA row : row.user_id = u))

\* C23: every GET /api/history that is answered 200 returns the searches of
\* the calling user and no others, the search made last first, and at most
\* HISTORY_LIMIT of them: the HISTORY_LIMIT searches made last when the user
\* has made more.
C23_HistoryIsMostRecentFirst ==
    (req.op = "get_history" /\ resp.status = 200)
    => resp.history = history_rows(Take(SearchesOf(Caller(req, now)), HISTORY_LIMIT))


-----------------------------------------------------------------------------
(* app_improved.py: POST /api/recipes/search without ingredients *)

\* the ingredient text of the body is empty or holds nothing but whitespace
BlankIngredients(data) ==
    "ingredients" \in DOMAIN data /\ \A i \in 1..Len(data.ingredients) :
                                        data.ingredients[i] \in Whitespace

\* searches of the registered users, with and without a database connection,
\* the API failing or answering with one recipe
NextBlankSearch ==
    \E hdr \in TenantHeaders(now), data \in SearchData,
       api \in {ApiRaises, ApiReturns(<<SampleRecipe>>)}, db \in BOOLEAN :
        improved_search_recipes(hdr, data, api, db)

SpecBlankSearch == InitSearch /\ [][NextBlankSearch]_vars

\* C24: every authenticated POST /api/recipes/search of app_improved.py whose
\* ingredient text is empty or only whitespace is answered 400, does not call
\* the completion API, and leaves the search_history and recipes tables as
\* they were.
C24_BlankSearchIs400 ==
    [][(/\ req'.op = "search_recipes" /\ req'.app = "improved"
        /\ Caller(req', now) # 0
        /\ BlankIngredients(req'.data))
       => (/\ resp'.status = 400
           /\ ~api_called'
           /\ search_history' = search_history
           /\ recipes' = recipes)]_vars

\* a search was stored before (the API was called for it), and the blank
\* search that follows is answered 400 without a call
C24_Witness ==
    /\ req.op = "search_recipes" /\ req.app = "improved"
    /\ Caller(req, now) # 0
    /\ req.data = [ingredients |-> <<" ">>]
    /\ req.api.kind = "content" /\ req.db
    /\ resp.status = 400
    /\ ~api_called
    /\ Len(search_history) = 1 /\ Len(recipes) >= 1


-----------------------------------------------------------------------------
(* app_improved.py: the names in the recipes table *)

\* C25: in every state that search and add-favorite requests of
\* app_improved.py lead to, no two rows of the recipes table have the same
\* name.
C25_OneRowPerRecipeName ==
    \A i, j \in 1..Len(recipes) : recipes[i].name = recipes[j].name => i = j


-----------------------------------------------------------------------------
(* app_improved.py: what GET /api/favorites shows of a submitted recipe *)

\* the four fields of a submitted recipe that GET /api/favorites shows, with
\* the defaults add_favorite_recipe fills in
Submitted(recipe_data) ==
    [name |-> recipe_data.name,
     description |-> Get(recipe_data, "description", <<>>),
     cook_time |-> Get(recipe_data, "cook_time", <<>>),
     difficulty |-> Get(recipe_data, "difficulty", <<"Medium">>)]

\* the same four fields of the rows GET /api/favorites returns to the user
ShownTo(user_id) ==
    UNION {{[name |-> answer.rows[i].name, description |-> answer.rows[i].description,
             cook_time |-> answer.rows[i].cook_time,
             difficulty |-> answer.rows[i].difficulty] : i \in 1..Len(answer.rows)} :
           answer \in Favorite_get_user_favorites(TRUE, user_id)}

\* C26: when a POST /api/favorites of app_improved.py has been answered 201,
\* GET /api/favorites shows the caller a recipe with the name, description,
\* cook_time and difficulty of the request, whatever other users have sent
\* before.
C26_FavoriteShowsOwnSubmission ==
    (req.op = "add_favorite_recipe" /\ req.app = "improved" /\ resp.status = 201)
    => Submitted(req.data.recipe) \in ShownTo(Caller(req, now))


-----------------------------------------------------------------------------
(* the ingredient routes of app.py against those of app_improved.py *)

\* the status of the answers a route may give, which differ in the order of
\* their rows only
StatusOf(answers) == (CHOOSE answer \in answers : TRUE).status

\* the status and the ingredient rows with which the other application
\* answers the request r in the present state
OtherApplication(r) ==
    IF r.op = "get_ingredients"
    THEN [status |-> IF r.app = "app"
                     THEN StatusOf(improved_get_ingredients_result(r.hdr, r.db))
                     ELSE StatusOf(app_get_user_ingredients_result(r.hdr, r.db)),
          rows |-> user_ingredients]
    ELSE IF r.op = "add_ingredient"
    THEN LET other == IF r.app = "app"
                      THEN improved_add_ingredient_result(r.hdr, r.data, r.db)
                      ELSE app_add_ingredient_result(r.hdr, r.data, r.db) IN
         [status |-> other.resp.status, rows |-> other.rows]
    ELSE LET other == IF r.app = "app"
                      THEN improved_remove_ingredient_result(r.hdr, r.ingredient, r.db)
                      ELSE app_remove_ingredient_result(r.hdr, r.ingredient, r.db) IN
         [status |-> other.resp.status, rows |-> other.rows]

\* C27: every authenticated add-ingredient, remove-ingredient and
\* list-ingredient request that one application handles with a database
\* connection gets the status code the other application gives it on the
\* same tables, and leaves the ingredient rows the other application leaves.
C27_SameStatusAndRows ==
    [][(/\ req'.op \in {"get_ingredients", "add_ingredient", "remove_ingredient"}
        /\ Caller(req', now) # 0
        /\ req'.db)
       => (/\ resp'.status = OtherApplication(req').status
           /\ user_ingredients' = OtherApplication(req').rows)]_vars


-----------------------------------------------------------------------------
(* app_improved.py: GET /api/stats *)

\* C28: every GET /api/stats that is answered 200 returns as total_searches
\* the number of search_history rows of the caller, as total_favorites the
\* number of the caller's user_favorites rows and as total_ingredients the
\* number of the caller's user_ingredients rows.
C28_StatsCountTheRows ==
    (req.op = "get_user_stats" /\ req.app = "improved" /\ resp.status = 200)
    => LET u == Caller(req, now) IN
       /\ resp.total_searches =
              Len(SelectSeq(search_history, LAMBDA row : row.user_id = u))
       /\ resp.total_favorites = Len(FavoritesOf(user_favorites, u))
       /\ resp.total_ingredients =
              Len(SelectSeq(user_ingredients, LAMBDA row : row.user_id = u))


-----------------------------------------------------------------------------
(* app_improved.py: POST /api/ingredients followed by DELETE                *)
(* /api/ingredients/<ingredient>                                            *)

\* the names of the round trips: "a", "A", " a" and "a/b"
RoundTripNames == {<<"a">>, <<"A">>, <<" ", "a">>, <<"a", "/", "b">>}

\* the characters of a text
Chars(s) == {s[i] : i \in 1..Len(s)}

\* DELETE /api/ingredients/<path>.  The rule '/api/ingredients/<ingredient>'
\* matches one path segment, a text without '/'; a path that matches no rule
\* is answered by the 404 handler and no view function runs.
delete_ingredient(hdr, path, db) ==
    IF "/" \in Chars(path)
    THEN /\ req' = [op |-> "remove_ingredient", app |-> "improved", hdr |-> hdr,
                    ingredient |-> path, db |-> db]
         /\ resp' = [status |-> 404, error |-> "Endpoint not found"]
         /\ UNCHANGED <<tables, collation, now, registered, issued, pending,
                        connections, api_called>>
    ELSE improved_remove_ingredient(hdr, path, db)

NextRoundTrip ==
    \/ \E hdr \in TenantHeaders(now), x \in RoundTripNames, db \in BOOLEAN :
          improved_add_ingredient(hdr, [has |-> {"ingredient"}, ingredient |-> x], db)
    \/ \E hdr \in TenantHeaders(now), x \in RoundTripNames, db \in BOOLEAN :
          delete_ingredient(hdr, x, db)

SpecRoundTrip == InitImproved /\ [][NextRoundTrip]_vars

\* the ingredient names stored for the user
NamesOf(u) ==
    {user_ingredients[i].ingredient :
        i \in {j \in 1..Len(user_ingredients) : user_ingredients[j].user_id = u}}

\* C29: when a POST /api/ingredients of app_improved.py with a name x the
\* user did not hold has been answered 201, a DELETE /api/ingredients/x of the
\* same user that follows it, with x in any case and handled with a database
\* connection, leaves the user with the names held before the POST: the names
\* held after it less the one it added.
C29_AddThenRemoveRestores ==
    [][(/\ req.op = "add_ingredient" /\ req.app = "improved" /\ resp.status = 201
        /\ req'.op = "remove_ingredient" /\ req'.app = "improved" /\ req'.db
        /\ Caller(req', now) = Caller(req, now)
        /\ Lower(req'.ingredient) = Lower(req.data.ingredient))
       => \A u \in 1..MaxUsers :
             u = Caller(req, now)
             => NamesOf(u)' = NamesOf(u) \ {resp.ingredient}]_vars

====
